---- MODULE Spec2Model ----
(***************************************************************************)
(* A model of the whis voice-to-text engine: the desktop recording         *)
(* orchestrator (whis-desktop/src/recording), the streaming WebSocket      *)
(* backends (whis-core/src/provider/*_realtime.rs), the CLI                *)
(* post-processing phase (whis-cli/.../pipeline/process.rs), the mobile    *)
(* transcription commands (whis-mobile/src/commands.rs) and the local      *)
(* engine caches (whis-core/src/provider/local_*.rs).                      *)
(***************************************************************************)
EXTENDS Integers, Sequences, FiniteSets, TLC

(***************************************************************************)
(* Bounds of the model.                                                    *)
(***************************************************************************)
\* number of toggle_recording invocations (tray, IPC, shortcut, command)
MaxToggles == 3

\* number of audio frames delivered to a streaming session
MaxFrames == 2

\* number of messages the server sends during a streaming session
MaxEvents == 2

\* number of audio chunks the mobile frontend sends to a streaming session
MaxChunks == 2

\* number of calls made on a local engine cache
MaxCalls == 2

\* data callbacks of one recording, device errors reported to err_fn, and
\* the capacity of the bounded stream channel
MaxCallbacks == 6
MaxStreamErrors == 3
StreamChannelCapacity == 2

\* longest chunk text, in characters, and most chunks, of the merges tried
\* exhaustively
MaxTextLen == 3
MaxMergeChunks == 2

\* longest sample buffer handed to the audio front end, and calls made on it
MaxSamples == 2
MaxAudioCalls == 1

\* longest input of Parakeet's transcribe_samples, in half seconds of audio
MaxParakeetHalfSecs == 600

\* streaming sessions the mobile frontend starts one after the other
MaxSessions == 2

\* longest audio of a streaming session, in half seconds
MaxAudioHalfSecs == 1300

Procs == 1..MaxToggles

\* Option::None for the recorder / receiver slots
NoRec == 0

VARIABLES
    \* ---- desktop AppState (whis-desktop/src/state.rs) ----
    state,              \* AppState.state : RecordingState
    recorder,           \* AppState.recorder : Option<AudioRecorder>
    transcription_rx,   \* AppState.transcription_rx : Option<oneshot::Receiver>
    transcription_config, \* AppState.transcription_config is Some
    idle_unload_handle, \* AppState.idle_unload_handle is Some
    settings,           \* AppState.settings: provider kind, keep_model_loaded
    \* ---- desktop environment ----
    capturing,          \* recorders whose input stream is open
    stopped,            \* recorders on which stop_recording succeeded
    adapters,           \* running bounded->unbounded adapter tasks
    task,               \* per recording: transcription task spawned or not
    \* ---- desktop control: one process per toggle_recording call ----
    pc,                 \* position of each toggle invocation
    held,               \* the receiver a stop invocation took out of the state
    out,                \* what each invocation returned, wrote and emitted
    trans               \* last change of AppState.state: from, to, by whom

dvars == <<state, recorder, transcription_rx, transcription_config,
           idle_unload_handle, settings, capturing, stopped, adapters, task,
           pc, held, out, trans>>

VARIABLES
    \* ---- one streaming session (provider/*_realtime.rs) ----
    kind,               \* "deepgram" or "openai"
    setup,              \* OpenAI: how the wait for the session ended, or "none"
    accepted,           \* lengths of the frames the capture channel accepted
    captured,           \* frames in the bounded capture channel
    delivered,          \* frames the adapter has forwarded, in order
    audio,              \* audio_rx: frames in the unbounded channel
    wire,               \* what the sender has written to the socket
    total_samples,      \* the sender's running sample count
    s_pc,               \* position of transcribe_stream_impl
    s_result,           \* value returned by transcribe_stream_impl
    done_sig,           \* the done oneshot: pending, sent(total), dropped
    err_sig,            \* OpenAI error oneshot: none, sent, closed
    keepalive,          \* Deepgram keepalive task: none, running, stopped
    ka_cancel,          \* keepalive cancel channel signalled or dropped
    r_pc,               \* position of collect_transcripts
    r_result,           \* value returned by collect_transcripts
    r_from,             \* the place collect_transcripts returned from
    collected,          \* final_transcript / early_transcript: segments kept
    msgs,               \* number of server messages read so far
    finals,             \* the final segments read so far, in arrival order
    outer,              \* ms left on the sender's wait for the reader, or -1
    drain               \* ms left on the reader's drain deadline, or -1

svars == <<kind, setup, accepted, captured, delivered, audio, wire,
           total_samples, s_pc, s_result, done_sig, err_sig,
           keepalive, ka_cancel, r_pc, r_result, r_from, collected, msgs,
           finals, outer, drain>>

VARIABLES
    \* ---- one call of the CLI process() phase (record/pipeline/process.rs) ----
    cli_in,             \* the arguments and the settings the call sees
    cli_pc,             \* position in process()
    cli_text,           \* the local `text`
    cli_cfg,            \* what resolve_post_processor_config returned
    cli_log,            \* side effects: Ollama preload, status line
    cli_result          \* the value process() returned

cvars == <<cli_in, cli_pc, cli_text, cli_cfg, cli_log, cli_result>>

VARIABLES
    \* ---- the mobile shell (whis-mobile/src/commands.rs) ----
    recording_state,    \* AppState.recording_state
    audio_tx,           \* AppState.audio_tx holds a sender
    mob_in,             \* the settings store as the call sees it
    mob_pc,             \* position of the command being run
    mob_task,           \* position of the spawned streaming task
    mob_text,           \* the transcript in hand
    mob_out,            \* what the command / task produced
    mob_chunks          \* chunks accepted by transcribe_streaming_send_chunk

mvars == <<recording_state, audio_tx, mob_in, mob_pc, mob_task, mob_text,
           mob_out, mob_chunks>>

VARIABLES
    \* ---- the local engine caches (provider/local_whisper.rs, local_parakeet.rs) ----
    eng_kind,           \* which cache: whisper or parakeet
    slot,               \* path of the cached engine, or NoPath
    KEEP_LOADED,        \* the KEEP_LOADED flag
    loading,            \* path of an engine loaded but not yet cached
    cache_lock,         \* the call holding the cache mutex, or 0
    eng_log,            \* load / unload events in order
    call                \* the calls made on the cache

evars == <<eng_kind, slot, KEEP_LOADED, loading, cache_lock, eng_log, call>>

VARIABLES
    \* ---- the phase-2 budget of a streaming reader, computed on its own ----
    dr_kind,            \* "deepgram" or "openai"
    dr_total,           \* total_samples received on done_rx
    dr_budget           \* the timeout duration in ms, or -1 before it is computed

bvars == <<dr_kind, dr_total, dr_budget>>

VARIABLES
    \* ---- the capture callback (whis-core/src/audio/recorder/stream.rs) ----
    STREAM_ERROR_COUNT, \* the static error counter
    cap_chan,           \* frames queued in the bounded stream channel
    cap_calls,          \* data callbacks made so far
    cap_dropped         \* frames try_send refused because the channel was full

kvars == <<STREAM_ERROR_COUNT, cap_chan, cap_calls, cap_dropped>>

VARIABLES
    \* ---- one chunked recording of the desktop application ----
    ch_provider,        \* the configured TranscriptionProvider
    ch_path,            \* the function the transcription task runs
    ch_pc,              \* position of the transcription task
    ch_capturing,       \* the input stream is open
    ch_next,            \* index of the next chunk the chunker emits
    ch_closed,          \* the chunker has dropped chunk_tx
    ch_queue,           \* chunk_rx: indices of the chunks waiting
    ch_texts,           \* the task's `transcriptions` vector (chunk indices)
    ch_requests,        \* transcription calls made: chunk and engine
    ch_result,          \* what the task sent on result_tx
    ch_state,           \* AppState.state
    ch_out              \* what stop_and_transcribe returned, wrote, emitted

hvars == <<ch_provider, ch_path, ch_pc, ch_capturing, ch_next, ch_closed,
           ch_queue, ch_texts, ch_requests, ch_result, ch_state, ch_out>>

VARIABLES
    \* ---- one call of merge_transcriptions (transcription/transcribe.rs) ----
    mg_in,              \* the transcriptions handed in
    mg_done,            \* the call has returned
    mg_out              \* the merged string

gvars == <<mg_in, mg_done, mg_out>>

VARIABLES
    \* ---- calls on the audio front end (audio/vad/processor_noop.rs, resample.rs) ----
    vad_args,           \* the arguments VadProcessor::new was given
    au_n,               \* calls made so far
    au_last             \* the last call: operation, input, output

avars == <<vad_args, au_n, au_last>>

VARIABLES
    \* ---- overlapping mobile streaming sessions (whis-mobile/src/commands.rs) ----
    ss_state,           \* AppState.recording_state
    ss_tx,              \* session whose sender AppState.audio_tx holds, 0 for None
    ss_cmd,             \* position of each transcribe_streaming_start
    ss_task,            \* position of each spawned task
    ss_sent,            \* chunks accepted into each session's channel
    ss_stopped          \* transcribe_streaming_stop ran since the last start

nvars == <<ss_state, ss_tx, ss_cmd, ss_task, ss_sent, ss_stopped>>

VARIABLES
    \* ---- the tasks of a chunked desktop recording, from capture to result ----
    cs_recorder,        \* the recorder: recording or stopped
    cs_captured,        \* frames the capture callback produced
    cs_capture,         \* frames waiting in the bounded capture channel
    cs_adapter,         \* the adapter task: running or ended
    cs_audio,           \* frames waiting in the unbounded channel
    cs_chunker,         \* the chunker task: running or ended
    cs_pending,         \* frames the chunker holds for its next chunk
    cs_chunks,          \* chunks waiting in chunk_rx
    cs_task,            \* position of the transcription task
    cs_result,          \* the oneshot: none, ok, err, or dropped unsent
    cs_pipeline         \* position of stop_and_transcribe

xvars == <<cs_recorder, cs_captured, cs_capture, cs_adapter, cs_audio,
           cs_chunker, cs_pending, cs_chunks, cs_task, cs_result, cs_pipeline>>

VARIABLES
    \* ---- one call of Parakeet's transcribe_samples (provider/local_parakeet.rs) ----
    wn_len,             \* samples.len()
    wn_pc,              \* position in the function
    wn_start,           \* the loop variable `start`
    wn_chunks           \* `chunks`: the windows pushed, each <<start, end>>

wvars == <<wn_len, wn_pc, wn_start, wn_chunks>>

vars == <<dvars, svars, cvars, mvars, evars, bvars, kvars, hvars, gvars,
          avars, nvars, xvars, wvars>>

\* what the actions of one part leave alone
NotDesktop == <<svars, cvars, mvars, evars, bvars, kvars, hvars, gvars,
                avars, nvars, xvars, wvars>>
NotStream == <<dvars, cvars, mvars, evars, bvars, kvars, hvars, gvars, avars,
               nvars, xvars, wvars>>
NotCli == <<dvars, svars, mvars, evars, bvars, kvars, hvars, gvars, avars,
            nvars, xvars, wvars>>
NotMobile == <<dvars, svars, cvars, evars, bvars, kvars, hvars, gvars, avars,
               nvars, xvars, wvars>>
NotEngine == <<dvars, svars, cvars, mvars, bvars, kvars, hvars, gvars, avars,
               nvars, xvars, wvars>>
NotBudget == <<dvars, svars, cvars, mvars, evars, kvars, hvars, gvars, avars,
               nvars, xvars, wvars>>
NotCapture == <<dvars, svars, cvars, mvars, evars, bvars, hvars, gvars,
                avars, nvars, xvars, wvars>>
NotChunked == <<dvars, svars, cvars, mvars, evars, bvars, kvars, gvars,
                avars, nvars, xvars, wvars>>
NotMerge == <<dvars, svars, cvars, mvars, evars, bvars, kvars, hvars, avars,
              nvars, xvars, wvars>>
NotAudio == <<dvars, svars, cvars, mvars, evars, bvars, kvars, hvars, gvars,
              nvars, xvars, wvars>>
NotSessions == <<dvars, svars, cvars, mvars, evars, bvars, kvars, hvars,
                 gvars, avars, xvars, wvars>>
NotCascade == <<dvars, svars, cvars, mvars, evars, bvars, kvars, hvars,
                gvars, avars, nvars, wvars>>
NotWindows == <<dvars, svars, cvars, mvars, evars, bvars, kvars, hvars,
                gvars, avars, nvars, xvars>>

(***************************************************************************)
(* RecordingState (whis-desktop/src/state.rs:4, whis_core::RecordingState) *)
(***************************************************************************)
RecordingState == {"Idle", "Recording", "Transcribing"}

PostProcessor == {"None", "OpenAI", "Mistral", "Ollama"}

\* PostProcessor::requires_api_key
requires_api_key(p) == p \in {"OpenAI", "Mistral"}

\* The transcript produced by the transcription task, and its rewritten form.
Raw == "raw"
Processed == "processed"

\* op, entry, took: which function the toggle called, AppState.state when it
\* was entered, and the recorder stop_and_transcribe took out of the state.
NoOut == [result |-> "none", clip |-> "none", events |-> <<>>,
          ppfail |-> "none", clipok |-> TRUE,
          op |-> "-", entry |-> "-", took |-> NoRec]

\* Assignment to AppState.state by p, remembering the change it makes.
SetState(p, new) ==
    /\ state' = new
    /\ trans' = IF new # state THEN [from |-> state, to |-> new, by |-> p]
                ELSE trans

\* Dropping an AudioRecorder value releases the input stream it owns.
DropRecorder(r, cap) == cap \ {r}

(***************************************************************************)
(* AppState::new                                                           *)
(***************************************************************************)
\* the settings a session runs under: whether the configured provider is a
\* local engine, and ui.model_memory.keep_model_loaded; a local provider that
\* is to leave memory when idle, and a cloud provider
Settings == {[local |-> TRUE, keep_model_loaded |-> FALSE],
             [local |-> FALSE, keep_model_loaded |-> TRUE]}

\* AppState::cancel_idle_unload (state.rs 108-112): take the handle, abort it
cancel_idle_unload == idle_unload_handle' = FALSE

DesktopInit ==
    /\ state = "Idle"
    /\ recorder = NoRec
    /\ transcription_rx = NoRec
    /\ transcription_config = FALSE
    /\ idle_unload_handle = FALSE
    /\ settings \in Settings
    /\ capturing = {}
    /\ stopped = {}
    /\ adapters = {}
    /\ task = [p \in Procs |-> "none"]
    /\ pc = [p \in Procs |-> "ready"]
    /\ held = [p \in Procs |-> NoRec]
    /\ out = [p \in Procs |-> NoOut]
    /\ trans = [from |-> "Idle", to |-> "Idle", by |-> NoRec]

(***************************************************************************)
(* toggle_recording: read the state once, then dispatch.  Invocations are  *)
(* numbered in the order in which they are made.                           *)
(***************************************************************************)
ToggleRecording(p) ==
    /\ pc[p] = "ready"
    /\ \A q \in Procs : q < p => pc[q] # "ready"
    /\ pc' = [pc EXCEPT ![p] =
                CASE state = "Idle" -> "start"
                  [] state = "Recording" -> "stop_take"
                  [] state = "Transcribing" -> "done"]
    /\ out' = [out EXCEPT ![p].result =
                IF state = "Transcribing" THEN "ignored" ELSE "none"]
    /\ UNCHANGED <<state, recorder, transcription_rx, transcription_config,
                   capturing, stopped, adapters, task, held, trans>>
    /\ UNCHANGED <<idle_unload_handle, settings>>
    /\ UNCHANGED NotDesktop

(***************************************************************************)
(* start_recording_sync, lines 25-119: load the configuration, create the  *)
(* recorder, open the input stream, spawn the channel adapter.             *)
(***************************************************************************)
StartPrepare(p) ==
    /\ pc[p] = "start"
    /\ \E cfgOk, recOk, streamOk \in BOOLEAN :
        LET loaded == transcription_config \/ cfgOk
            entered == [out[p] EXCEPT !.op = "start", !.entry = state]
        IN
        IF ~loaded
        THEN /\ pc' = [pc EXCEPT ![p] = "done"]
             /\ out' = [out EXCEPT ![p] = [entered EXCEPT !.result = "start_err"]]
             /\ UNCHANGED <<transcription_config, capturing, adapters>>
        ELSE /\ transcription_config' = TRUE
             /\ IF recOk /\ streamOk
                THEN /\ capturing' = capturing \cup {p}
                     /\ adapters' = adapters \cup {p}
                     /\ pc' = [pc EXCEPT ![p] = "start_branch"]
                     /\ out' = [out EXCEPT ![p] = entered]
                ELSE /\ pc' = [pc EXCEPT ![p] = "done"]
                     /\ out' = [out EXCEPT ![p] = [entered EXCEPT !.result = "start_err"]]
                     /\ UNCHANGED <<capturing, adapters>>
    /\ UNCHANGED <<state, recorder, transcription_rx, stopped, task, held, trans>>
    /\ cancel_idle_unload
    /\ UNCHANGED settings
    /\ UNCHANGED NotDesktop

\* StartBranch with the recorder and receiver stored before the backend lookup
StartBranchStoresFirst(p) ==
    /\ pc[p] = "start_branch"
    /\ \E isRealtime \in {FALSE, ~settings.local}, backendOk \in BOOLEAN :
        IF isRealtime /\ ~backendOk
        THEN /\ recorder' = p
             /\ transcription_rx' = p
             /\ pc' = [pc EXCEPT ![p] = "done"]
             /\ out' = [out EXCEPT ![p].result = "start_err"]
             /\ UNCHANGED <<task, capturing>>
        ELSE /\ task' = [task EXCEPT ![p] = "running"]
             /\ pc' = [pc EXCEPT ![p] = "start_store_rx"]
             /\ UNCHANGED <<capturing, out, recorder, transcription_rx>>
    /\ UNCHANGED <<state, transcription_config, stopped, adapters, held, trans>>
    /\ UNCHANGED <<idle_unload_handle, settings>>
    /\ UNCHANGED NotDesktop

(***************************************************************************)
(* start_recording_sync, lines 121-207: realtime or chunked branch.  The   *)
(* realtime branch fails when no realtime backend is available; the error  *)
(* return drops the local recorder, the channel ends and the result sender.*)
(***************************************************************************)
StartBranch(p) ==
    /\ pc[p] = "start_branch"
    /\ \E isRealtime \in {FALSE, ~settings.local}, backendOk \in BOOLEAN :
        IF isRealtime /\ ~backendOk
        THEN /\ capturing' = DropRecorder(p, capturing)
             /\ pc' = [pc EXCEPT ![p] = "done"]
             /\ out' = [out EXCEPT ![p].result = "start_err"]
             /\ task' = task
        ELSE /\ task' = [task EXCEPT ![p] = "running"]
             /\ pc' = [pc EXCEPT ![p] = "start_store_rx"]
             /\ UNCHANGED <<capturing, out>>
    /\ UNCHANGED <<state, recorder, transcription_rx, transcription_config,
                   stopped, adapters, held, trans>>
    /\ UNCHANGED <<idle_unload_handle, settings>>
    /\ UNCHANGED NotDesktop

\* control.rs:210  *state.transcription_rx.lock().unwrap() = Some(result_rx)
StartStoreRx(p) ==
    /\ pc[p] = "start_store_rx"
    /\ transcription_rx' = p
    /\ pc' = [pc EXCEPT ![p] = "start_store_rec"]
    /\ UNCHANGED <<state, recorder, transcription_config, capturing, stopped,
                   adapters, task, held, out, trans>>
    /\ UNCHANGED <<idle_unload_handle, settings>>
    /\ UNCHANGED NotDesktop

\* control.rs:211  *state.recorder.lock().unwrap() = Some(recorder)
StartStoreRecorder(p) ==
    /\ pc[p] = "start_store_rec"
    /\ recorder' = p
    /\ capturing' = IF recorder # NoRec THEN DropRecorder(recorder, capturing)
                    ELSE capturing
    /\ pc' = [pc EXCEPT ![p] = "start_store_state"]
    /\ UNCHANGED <<state, transcription_rx, transcription_config, stopped,
                   adapters, task, held, out, trans>>
    /\ UNCHANGED <<idle_unload_handle, settings>>
    /\ UNCHANGED NotDesktop

\* control.rs:212  *state.state.lock().unwrap() = RecordingState::Recording
StartStoreState(p) ==
    /\ pc[p] = "start_store_state"
    /\ SetState(p, "Recording")
    /\ pc' = [pc EXCEPT ![p] = "done"]
    /\ out' = [out EXCEPT ![p].result = "start_ok"]
    /\ UNCHANGED <<recorder, transcription_rx, transcription_config, capturing,
                   stopped, adapters, task, held>>
    /\ UNCHANGED <<idle_unload_handle, settings>>
    /\ UNCHANGED NotDesktop

(***************************************************************************)
(* stop_and_transcribe, lines 23-28: take the recorder and stop it.        *)
(***************************************************************************)
StopTakeRecorder(p) ==
    /\ pc[p] = "stop_take"
    /\ recorder' = NoRec
    /\ LET entered == [out[p] EXCEPT !.op = "stop", !.entry = state,
                                     !.took = recorder]
       IN
       IF recorder = NoRec
       THEN /\ pc' = [pc EXCEPT ![p] = "stop_set"]
            /\ out' = [out EXCEPT ![p] = entered]
            /\ UNCHANGED <<capturing, stopped>>
       ELSE \E stopOk \in BOOLEAN :
            IF stopOk
            THEN /\ capturing' = capturing \ {recorder}
                 /\ stopped' = stopped \cup {recorder}
                 /\ pc' = [pc EXCEPT ![p] = "stop_set"]
                 /\ out' = [out EXCEPT ![p] = entered]
            ELSE /\ capturing' = DropRecorder(recorder, capturing)
                 /\ stopped' = stopped
                 /\ pc' = [pc EXCEPT ![p] = "done"]
                 /\ out' = [out EXCEPT ![p] = [entered EXCEPT !.result = "stop_err"]]
    /\ UNCHANGED <<state, transcription_rx, transcription_config, adapters,
                   task, held, trans>>
    /\ UNCHANGED <<idle_unload_handle, settings>>
    /\ UNCHANGED NotDesktop

\* pipeline.rs:31-33  state = Transcribing
StopSetTranscribing(p) ==
    /\ pc[p] = "stop_set"
    /\ SetState(p, "Transcribing")
    /\ pc' = [pc EXCEPT ![p] = "stop_rx"]
    /\ UNCHANGED <<recorder, transcription_rx, transcription_config, capturing,
                   stopped, adapters, task, held, out>>
    /\ UNCHANGED <<idle_unload_handle, settings>>
    /\ UNCHANGED NotDesktop

\* do_progressive_transcription, lines 50-55: take the receiver
StopTakeRx(p) ==
    /\ pc[p] = "stop_rx"
    /\ transcription_rx' = NoRec
    /\ IF transcription_rx = NoRec
       THEN /\ pc' = [pc EXCEPT ![p] = "stop_reset"]
            /\ out' = [out EXCEPT ![p].result = "err_no_rx"]
            /\ held' = held
       ELSE /\ pc' = [pc EXCEPT ![p] = "stop_await"]
            /\ held' = [held EXCEPT ![p] = transcription_rx]
            /\ out' = out
    /\ UNCHANGED <<state, recorder, transcription_config, capturing, stopped,
                   adapters, task, trans>>
    /\ UNCHANGED <<idle_unload_handle, settings>>
    /\ UNCHANGED NotDesktop

(***************************************************************************)
(* do_progressive_transcription, lines 63-98: the post-processing          *)
(* configuration extracted from the settings (Some / None).                *)
(***************************************************************************)
post_process_config(enabled, processor, hasKey) ==
    /\ enabled
    /\ processor # "None"
    /\ IF requires_api_key(processor) THEN hasKey ELSE processor = "Ollama"

(***************************************************************************)
(* do_progressive_transcription, lines 100-165: post-process, copy to the  *)
(* clipboard, emit transcription-complete.  The value is what the call     *)
(* returned, wrote to the clipboard and emitted.                           *)
(***************************************************************************)
Finish(o, text, clipOk, events, ppfail) ==
    IF clipOk
    THEN [o EXCEPT !.result = "ok", !.clip = text,
                   !.events = Append(events, <<"transcription-complete", text>>),
                   !.ppfail = ppfail, !.clipok = TRUE]
    ELSE [o EXCEPT !.result = "err_clipboard", !.events = events,
                   !.ppfail = ppfail, !.clipok = FALSE]

PipelineAfterTranscription(o, cfg, processor, joinOk, ollamaUp, ppOk, clipOk) ==
    IF ~cfg THEN Finish(o, Raw, clipOk, <<>>, "none")
    ELSE IF processor = "Ollama" /\ ~joinOk
    THEN [o EXCEPT !.result = "err_join", !.ppfail = "join"]
    ELSE IF processor = "Ollama" /\ ~ollamaUp
    THEN Finish(o, Raw, clipOk, <<<<"post-process-warning", "Ollama">>>>, "ollama_down")
    ELSE IF ppOk
    THEN Finish(o, Processed, clipOk, <<<<"post-process-started", "">>>>, "none")
    ELSE Finish(o, Raw, clipOk,
                <<<<"post-process-started", "">>, <<"post-process-warning", "chat">>>>,
                "chat")

\* The pipeline under every setting of the post-processor and every outcome
\* of the Ollama check, the chat call and the clipboard write.
PipelineOutcomes(o) ==
    { PipelineAfterTranscription(
          o, post_process_config(enabled, processor, hasKey),
          processor, joinOk, ollamaUp, ppOk, clipOk) :
        enabled \in BOOLEAN, hasKey \in BOOLEAN, joinOk \in BOOLEAN,
        ollamaUp \in BOOLEAN, ppOk \in BOOLEAN, clipOk \in BOOLEAN,
        processor \in PostProcessor }

(***************************************************************************)
(* The transcription task of recording r (control.rs:129-135, 166-204) and *)
(* what it sends on the oneshot channel: Ok(text) once its input has       *)
(* closed behind the adapter, Err(e) on a provider or transport failure,   *)
(* or nothing at all when it panics and result_tx is dropped.              *)
(***************************************************************************)
TaskResult(r, running_adapters) ==
    {"err", "dropped"} \cup (IF r \in running_adapters THEN {} ELSE {"ok"})

(***************************************************************************)
(* do_progressive_transcription, lines 57-165: await the oneshot receiver; *)
(* on a transcript run the rest of the pipeline.                           *)
(***************************************************************************)
StopAwait(p) ==
    /\ pc[p] = "stop_await"
    /\ \E sent \in TaskResult(held[p], adapters) :
       \/ /\ sent = "dropped"
          /\ out' = [out EXCEPT ![p].result = "err_task_dropped"]
       \/ /\ sent = "err"
          /\ out' = [out EXCEPT ![p].result = "err_transcription"]
       \/ /\ sent = "ok"
          /\ \E o \in PipelineOutcomes(out[p]) : out' = [out EXCEPT ![p] = o]
    /\ pc' = [pc EXCEPT ![p] = "stop_reset"]
    /\ UNCHANGED <<state, recorder, transcription_rx, transcription_config,
                   capturing, stopped, adapters, task, held, trans>>
    /\ UNCHANGED <<idle_unload_handle, settings>>
    /\ UNCHANGED NotDesktop

\* pipeline.rs:39-44  state = Idle; return result
StopReset(p) ==
    /\ pc[p] = "stop_reset"
    /\ SetState(p, "Idle")
    /\ pc' = [pc EXCEPT ![p] = "done"]
    /\ UNCHANGED <<recorder, transcription_rx, transcription_config, capturing,
                   stopped, adapters, task, held, out>>
    /\ UNCHANGED <<idle_unload_handle, settings>>
    /\ UNCHANGED NotDesktop

(***************************************************************************)
(* Background tasks spawned by start_recording_sync.                       *)
(***************************************************************************)
\* control.rs:81-87: the adapter ends when the capture channel closes
AdapterEnd(r) ==
    /\ r \in adapters
    /\ r \notin capturing
    /\ adapters' = adapters \ {r}
    /\ UNCHANGED <<state, recorder, transcription_rx, transcription_config,
                   capturing, stopped, task, pc, held, out, trans>>
    /\ UNCHANGED <<idle_unload_handle, settings>>
    /\ UNCHANGED NotDesktop

NextDesktop ==
    \E p \in Procs :
        \/ ToggleRecording(p)
        \/ StartPrepare(p)
        \/ StartBranch(p)
        \/ StartStoreRx(p)
        \/ StartStoreRecorder(p)
        \/ StartStoreState(p)
        \/ StopTakeRecorder(p)
        \/ StopSetTranscribing(p)
        \/ StopTakeRx(p)
        \/ StopAwait(p)
        \/ StopReset(p)
        \/ AdapterEnd(p)

(***************************************************************************)
(* Streaming backends: Deepgram Live (deepgram_realtime.rs) and OpenAI     *)
(* Realtime (openai_realtime.rs).  Time is kept as the milliseconds left   *)
(* on the two timers of a session.                                         *)
(***************************************************************************)
SAMPLE_RATE == 16000

\* timeout(Duration::from_secs(30), read_handle)
ReadHandleTimeoutSecs == 30

DeepgramDrainMinSecs == 5
DeepgramDrainMaxSecs == 60
OpenAIDrainMinSecs == 30
OpenAIDrainMaxSecs == 120

Clamp(x, lo, hi) == IF x < lo THEN lo ELSE IF x > hi THEN hi ELSE x

\* deepgram_realtime.rs:289-299: (total / 16000.0 / 5.0).clamp(5.0, 60.0) secs
\* in milliseconds; 16000 * 5 samples per second of budget is 80 per ms
DeepgramDrainMs(total) ==
    Clamp(total \div ((SAMPLE_RATE * 5) \div 1000),
          DeepgramDrainMinSecs * 1000, DeepgramDrainMaxSecs * 1000)

\* openai_realtime.rs:429-439: (total / 16000.0 / 5.0).clamp(30.0, 120.0) as u64
OpenAIDrainMs(total) ==
    Clamp(total \div (SAMPLE_RATE * 5), OpenAIDrainMinSecs, OpenAIDrainMaxSecs) * 1000

DrainMs(k, total) ==
    IF k = "deepgram" THEN DeepgramDrainMs(total) ELSE OpenAIDrainMs(total)

\* A frame of the model stands for a run of consecutive capture frames with
\* this many samples in all: none, 30 s and 100 s of audio.
FrameLens == {0, 30 * SAMPLE_RATE, 100 * SAMPLE_RATE}

RECURSIVE SeqsUpTo(_, _)
SeqsUpTo(S, n) ==
    IF n = 0 THEN {<<>>}
    ELSE LET shorter == SeqsUpTo(S, n - 1) IN
         shorter \cup {Append(q, x) : q \in shorter, x \in S}

\* Messages the server can send: a final result, an interim result, any
\* ignored message, a provider error event, unparseable text, a Close frame,
\* a transport error, and the end of the stream.
ServerMsgs == {"final", "interim", "other", "error", "garbage",
               "close", "wserr", "end"}

\* Deepgram {"type":"CloseStream"} / OpenAI input_audio_buffer.commit
CloseMarker == [t |-> "close_marker", n |-> 0]

NoResult == [ok |-> FALSE, set |-> FALSE, text |-> <<>>]
OkResult(t) == [ok |-> TRUE, set |-> TRUE, text |-> t]
ErrResult == [ok |-> FALSE, set |-> TRUE, text |-> <<>>]

StreamOff ==
    /\ kind = "deepgram" /\ setup = "none"
    /\ accepted = <<>> /\ captured = <<>> /\ delivered = <<>>
    /\ audio = <<>> /\ wire = <<>> /\ total_samples = 0
    /\ s_pc = "off" /\ s_result = NoResult
    /\ done_sig = [st |-> "pending", total |-> 0]
    /\ err_sig = "none" /\ keepalive = "none" /\ ka_cancel = FALSE
    /\ r_pc = "off" /\ r_result = NoResult /\ r_from = "-"
    /\ collected = <<>> /\ msgs = 0 /\ finals = <<>> /\ outer = -1 /\ drain = -1

\* transcribe_stream_impl once the socket is connected.  A Deepgram session
\* has spawned its reader and its keepalive task; an OpenAI session is about
\* to configure the session and has no reader yet.
StreamInit ==
    /\ kind \in {"deepgram", "openai"}
    /\ setup = "none"
    /\ captured \in SeqsUpTo(FrameLens, MaxFrames)
    /\ accepted = captured
    /\ delivered = <<>> /\ audio = <<>>
    /\ wire = <<>> /\ total_samples = 0
    /\ s_pc = (IF kind = "deepgram" THEN "stream" ELSE "configure")
    /\ s_result = NoResult
    /\ done_sig = [st |-> "pending", total |-> 0]
    /\ err_sig = "none"
    /\ keepalive = IF kind = "deepgram" THEN "running" ELSE "none"
    /\ ka_cancel = FALSE
    /\ r_pc = (IF kind = "deepgram" THEN "phase1" ELSE "off")
    /\ r_result = NoResult /\ r_from = "-"
    /\ collected = <<>> /\ msgs = 0 /\ finals = <<>> /\ outer = -1 /\ drain = -1

\* openai_realtime.rs:175: the wait for the session acknowledgement
SetupTimeoutSecs == 30

\* what the server can answer while the session is being set up
SetupMsgs == {"session.created", "session.updated", "error", "close",
              "wserr", "end", "garbage", "other"}

SessionAcks == {"session.created", "session.updated"}

\* openai_realtime.rs:146-171: send session.update
SendSessionUpdate ==
    /\ s_pc = "configure"
    /\ \E sendOk \in BOOLEAN :
        IF sendOk
        THEN /\ wire' = Append(wire, [t |-> "session_update", n |-> 0])
             /\ s_pc' = "setup"
             /\ outer' = SetupTimeoutSecs * 1000
             /\ UNCHANGED s_result
        ELSE /\ s_pc' = "returned"
             /\ s_result' = ErrResult
             /\ UNCHANGED <<wire, outer>>
    /\ UNCHANGED <<kind, setup, audio, total_samples, done_sig, err_sig,
                   keepalive, ka_cancel, r_pc, r_result, r_from, collected,
                   msgs, finals, drain>>
    /\ UNCHANGED <<accepted, captured, delivered>>
    /\ UNCHANGED NotStream

\* openai_realtime.rs:174-213: one message read while waiting for the session;
\* an acknowledgement ends the wait and the reader is spawned (lines 215-224)
SetupMessage ==
    /\ s_pc = "setup"
    /\ \E ev \in SetupMsgs :
        CASE ev \in SessionAcks ->
                /\ setup' = ev
                /\ s_pc' = "stream"
                /\ r_pc' = "phase1"
                /\ outer' = -1
                /\ UNCHANGED s_result
          [] ev = "other" ->
                UNCHANGED <<setup, s_pc, r_pc, outer, s_result>>
          [] OTHER ->
                /\ setup' = ev
                /\ s_pc' = "returned"
                /\ s_result' = ErrResult
                /\ outer' = -1
                /\ UNCHANGED r_pc
    /\ UNCHANGED <<kind, audio, wire, total_samples, done_sig, err_sig,
                   keepalive, ka_cancel, r_result, r_from, collected,
                   msgs, finals, drain>>
    /\ UNCHANGED <<accepted, captured, delivered>>
    /\ UNCHANGED NotStream

\* SetupTimeout going on to stream the audio without an acknowledgement
SetupTimeoutProceeds ==
    /\ s_pc = "setup"
    /\ outer = 0
    /\ setup' = "timeout"
    /\ s_pc' = "stream"
    /\ r_pc' = "phase1"
    /\ outer' = -1
    /\ UNCHANGED <<kind, audio, wire, total_samples, s_result, done_sig,
                   err_sig, keepalive, ka_cancel, r_result, r_from, collected,
                   msgs, finals, drain>>
    /\ UNCHANGED <<accepted, captured, delivered>>
    /\ UNCHANGED NotStream

\* openai_realtime.rs:209-213: the 30 s wait elapsed
SetupTimeout ==
    /\ s_pc = "setup"
    /\ outer = 0
    /\ setup' = "timeout"
    /\ s_pc' = "returned"
    /\ s_result' = ErrResult
    /\ outer' = -1
    /\ UNCHANGED <<kind, audio, wire, total_samples, done_sig, err_sig,
                   keepalive, ka_cancel, r_pc, r_result, r_from, collected,
                   msgs, finals, drain>>
    /\ UNCHANGED <<accepted, captured, delivered>>
    /\ UNCHANGED NotStream

\* An error return that keeps done_tx and the keepalive cancel sender alive
SenderFailsKeepsSenders ==
    /\ s_pc' = "returned"
    /\ s_result' = ErrResult
    /\ UNCHANGED <<done_sig, ka_cancel>>

\* An error return of transcribe_stream_impl drops done_tx and the keepalive
\* cancel sender along with the other locals.
SenderFails ==
    /\ s_pc' = "returned"
    /\ s_result' = ErrResult
    /\ done_sig' = IF done_sig.st = "pending"
                   THEN [st |-> "dropped", total |-> 0] ELSE done_sig
    /\ ka_cancel' = TRUE

\* AdapterForward putting each frame in front of the frames already queued
AdapterForwardReorders ==
    /\ captured # <<>>
    /\ IF s_pc \in {"returned", "dropped"}
       THEN /\ captured' = <<>>
            /\ UNCHANGED <<audio, delivered>>
       ELSE /\ captured' = Tail(captured)
            /\ audio' = <<Head(captured)>> \o audio
            /\ delivered' = <<Head(captured)>> \o delivered
    /\ UNCHANGED <<kind, setup, accepted, wire, total_samples, s_pc, s_result,
                   done_sig, err_sig, keepalive, ka_cancel, r_pc, r_result,
                   r_from, collected, msgs, finals, outer, drain>>
    /\ UNCHANGED NotStream

\* whis-desktop control.rs:79-87, the bounded-to-unbounded adapter task: one
\* turn of its loop.  When the backend has returned, audio_rx is dropped, the
\* send fails and the adapter ends, dropping the bounded receiver.
AdapterForward ==
    /\ captured # <<>>
    /\ IF s_pc \in {"returned", "dropped"}
       THEN /\ captured' = <<>>
            /\ UNCHANGED <<audio, delivered>>
       ELSE /\ captured' = Tail(captured)
            /\ audio' = Append(audio, Head(captured))
            /\ delivered' = Append(delivered, Head(captured))
    /\ UNCHANGED <<kind, setup, accepted, wire, total_samples, s_pc, s_result,
                   done_sig, err_sig, keepalive, ka_cancel, r_pc, r_result,
                   r_from, collected, msgs, finals, outer, drain>>
    /\ UNCHANGED NotStream

\* deepgram_realtime.rs:132-156, openai_realtime.rs:230-279: one turn of the
\* audio loop.
SendAudio ==
    /\ s_pc = "stream"
    /\ audio # <<>>
    /\ IF kind = "openai" /\ err_sig # "none"
       THEN /\ SenderFails
            /\ UNCHANGED <<audio, wire, total_samples>>
       ELSE /\ audio' = Tail(audio)
            /\ IF Head(audio) = 0
               THEN UNCHANGED <<wire, total_samples, s_pc, s_result, done_sig,
                                ka_cancel>>
               ELSE /\ total_samples' = total_samples + Head(audio)
                    /\ \E sendOk \in BOOLEAN :
                        IF sendOk
                        THEN /\ wire' = Append(wire, [t |-> "audio", n |-> Head(audio)])
                             /\ UNCHANGED <<s_pc, s_result, done_sig, ka_cancel>>
                        ELSE /\ wire' = wire
                             /\ SenderFails
    /\ UNCHANGED <<kind, setup, err_sig, keepalive, r_pc, r_result, r_from, collected,
                   msgs, finals, outer, drain>>
    /\ UNCHANGED <<accepted, captured, delivered>>
    /\ UNCHANGED NotStream

\* the audio channel is closed (the adapter has ended and dropped its
\* sender) and empty: leave the loop
AudioClosed ==
    /\ s_pc = "stream"
    /\ audio = <<>> /\ captured = <<>>
    /\ IF kind = "openai" /\ err_sig # "none"
       THEN SenderFails
       ELSE /\ s_pc' = IF kind = "deepgram" THEN "cancel_keepalive" ELSE "close"
            /\ ka_cancel' = (kind = "deepgram")
            /\ UNCHANGED <<s_result, done_sig>>
    /\ UNCHANGED <<kind, setup, audio, wire, total_samples, err_sig, keepalive, r_pc,
                   r_result, r_from, collected, msgs, finals, outer, drain>>
    /\ UNCHANGED <<accepted, captured, delivered>>
    /\ UNCHANGED NotStream

\* deepgram_realtime.rs:165-167: keepalive_handle.await
AwaitKeepalive ==
    /\ s_pc = "cancel_keepalive"
    /\ keepalive = "stopped"
    /\ s_pc' = "close"
    /\ UNCHANGED <<kind, setup, audio, wire, total_samples, s_result, done_sig, err_sig,
                   keepalive, ka_cancel, r_pc, r_result, r_from, collected, msgs, finals,
                   outer, drain>>
    /\ UNCHANGED <<accepted, captured, delivered>>
    /\ UNCHANGED NotStream

\* deepgram_realtime.rs:212-242: the keepalive task leaves its loop when it is
\* cancelled, when the cancel sender is dropped, or when a write fails.
KeepaliveExit ==
    /\ keepalive = "running"
    /\ keepalive' = "stopped"
    /\ UNCHANGED <<kind, setup, audio, wire, total_samples, s_pc, s_result, done_sig,
                   err_sig, ka_cancel, r_pc, r_result, r_from, collected, msgs, finals,
                   outer, drain>>
    /\ UNCHANGED <<accepted, captured, delivered>>
    /\ UNCHANGED NotStream

\* deepgram_realtime.rs:169-180, openai_realtime.rs:288-299: write the close
\* marker, then signal the reader with total_samples, then wait for it.
SendCloseMarker ==
    /\ s_pc = "close"
    /\ \E sendOk \in BOOLEAN :
        IF sendOk
        THEN /\ wire' = Append(wire, CloseMarker)
             /\ s_pc' = "signal"
             /\ UNCHANGED <<s_result, done_sig, ka_cancel>>
        ELSE /\ wire' = wire
             /\ SenderFails
    /\ UNCHANGED <<kind, setup, audio, total_samples, err_sig, keepalive, r_pc,
                   r_result, r_from, collected, msgs, finals, outer, drain>>
    /\ UNCHANGED <<accepted, captured, delivered>>
    /\ UNCHANGED NotStream

SignalDone ==
    /\ s_pc = "signal"
    /\ done_sig' = [st |-> "sent", total |-> total_samples]
    /\ s_pc' = "wait"
    /\ outer' = ReadHandleTimeoutSecs * 1000
    /\ UNCHANGED <<kind, setup, audio, wire, total_samples, s_result, err_sig,
                   keepalive, ka_cancel, r_pc, r_result, r_from, collected,
                   msgs, finals, drain>>
    /\ UNCHANGED <<accepted, captured, delivered>>
    /\ UNCHANGED NotStream

\* let _ = write.lock().await.send(Message::Close(None)).await
SendClose(w, sendOk) == IF sendOk THEN Append(w, [t |-> "ws_close", n |-> 0]) ELSE w

\* JoinReader answering Ok with an empty transcript when the reader failed
JoinReaderSwallowsError ==
    /\ s_pc = "wait"
    /\ r_pc = "returned"
    /\ s_result' = IF r_result.ok THEN r_result
                   ELSE [ok |-> TRUE, set |-> TRUE, text |-> <<>>]
    /\ s_pc' = "returned"
    /\ outer' = -1
    /\ \E sendOk \in BOOLEAN : wire' = SendClose(wire, sendOk)
    /\ UNCHANGED <<kind, setup, audio, total_samples, done_sig, err_sig,
                   keepalive, ka_cancel, r_pc, r_result, r_from, collected,
                   msgs, finals, drain>>
    /\ UNCHANGED <<accepted, captured, delivered>>
    /\ UNCHANGED NotStream

\* deepgram_realtime.rs:183-193, openai_realtime.rs:302-312
JoinReader ==
    /\ s_pc = "wait"
    /\ r_pc = "returned"
    /\ s_result' = r_result
    /\ s_pc' = "returned"
    /\ outer' = -1
    /\ \E sendOk \in BOOLEAN : wire' = SendClose(wire, sendOk)
    /\ UNCHANGED <<kind, setup, audio, total_samples, done_sig, err_sig,
                   keepalive, ka_cancel, r_pc, r_result, r_from, collected,
                   msgs, finals, drain>>
    /\ UNCHANGED <<accepted, captured, delivered>>
    /\ UNCHANGED NotStream

ReadHandleTimeout ==
    /\ s_pc = "wait"
    /\ outer = 0
    /\ s_result' = ErrResult
    /\ s_pc' = "returned"
    /\ outer' = -1
    /\ \E sendOk \in BOOLEAN : wire' = SendClose(wire, sendOk)
    /\ UNCHANGED <<kind, setup, audio, total_samples, done_sig, err_sig,
                   keepalive, ka_cancel, r_pc, r_result, r_from, collected,
                   msgs, finals, drain>>
    /\ UNCHANGED <<accepted, captured, delivered>>
    /\ UNCHANGED NotStream

\* collect_transcripts returns: its locals (the OpenAI error sender among
\* them) are dropped.
ReaderReturns(res, from, errSent) ==
    /\ r_pc' = "returned"
    /\ r_result' = res
    /\ r_from' = from
    /\ drain' = -1
    /\ err_sig' = IF kind = "openai" /\ err_sig = "none"
                  THEN (IF errSent THEN "sent" ELSE "closed")
                  ELSE err_sig

\* A transcript is a sequence of tokens: a segment is the number of the
\* message that carried it, and Space is the character ' '.
Space == 0

\* str::trim_start and str::trim_end on a transcript
RECURSIVE trim_start(_)
trim_start(t) ==
    IF t # <<>> /\ Head(t) = Space THEN trim_start(Tail(t)) ELSE t

RECURSIVE trim_end(_)
trim_end(t) ==
    IF t # <<>> /\ t[Len(t)] = Space
    THEN trim_end(SubSeq(t, 1, Len(t) - 1)) ELSE t

\* str::trim
trim(t) == trim_end(trim_start(t))

\* process_message treating a final result as the end of the collection
process_message_ReturnsOnFinal(ev, final_transcript, id) ==
    CASE ev = "final" ->
            [act |-> "return", text |-> trim(final_transcript \o <<id, Space>>)]
      [] ev \in {"interim", "other"} ->
            [act |-> "continue", text |-> final_transcript]
      [] ev \in {"close", "end"} ->
            [act |-> "return", text |-> trim(final_transcript)]
      [] OTHER ->
            [act |-> "err", text |-> final_transcript]

\* deepgram_realtime.rs:334-410 process_message: what one message does to
\* final_transcript and whether the reader goes on.
process_message(ev, final_transcript, id) ==
    CASE ev = "final" ->
            [act |-> "continue", text |-> final_transcript \o <<id, Space>>]
      [] ev \in {"interim", "other"} ->
            [act |-> "continue", text |-> final_transcript]
      [] ev \in {"close", "end"} ->
            [act |-> "return", text |-> trim(final_transcript)]
      [] OTHER ->
            [act |-> "err", text |-> final_transcript]

\* openai_phase1_message ignoring a transcript that arrives during phase 1
openai_phase1_message_DropsTranscript(ev, early_transcript, id) ==
    CASE ev \in {"final", "interim", "other"} ->
            [act |-> "continue", text |-> early_transcript]
      [] OTHER -> [act |-> "err", text |-> early_transcript]

\* openai_realtime.rs:371-421: a message during phase 1
openai_phase1_message(ev, early_transcript, id) ==
    CASE ev = "final" -> [act |-> "continue", text |-> <<id>>]
      [] ev \in {"interim", "other"} ->
            [act |-> "continue", text |-> early_transcript]
      [] OTHER -> [act |-> "err", text |-> early_transcript]

\* openai_realtime.rs:463-503: a message during phase 2
openai_phase2_message(ev, id) ==
    CASE ev = "final" -> [act |-> "return", text |-> <<id>>]
      [] ev \in {"close", "end"} -> [act |-> "return", text |-> <<>>]
      [] ev \in {"interim", "other"} -> [act |-> "continue", text |-> <<>>]
      [] OTHER -> [act |-> "err", text |-> <<>>]

\* phase 1, the done_rx arm of the select: result.unwrap_or(0)
ReaderDone ==
    /\ r_pc = "phase1"
    /\ done_sig.st # "pending"
    /\ IF kind = "openai" /\ collected # <<>>
       THEN /\ ReaderReturns(OkResult(collected), "phase1_early", FALSE)
            /\ UNCHANGED <<collected>>
       ELSE /\ r_pc' = "phase2"
            /\ drain' = DrainMs(kind, IF done_sig.st = "sent"
                                      THEN done_sig.total ELSE 0)
            /\ UNCHANGED <<r_result, r_from, err_sig, collected>>
    /\ UNCHANGED <<kind, setup, audio, wire, total_samples, s_pc, s_result, done_sig,
                   keepalive, ka_cancel, msgs, finals, outer>>
    /\ UNCHANGED <<accepted, captured, delivered>>
    /\ UNCHANGED NotStream

\* phase 1, the read.next() arm of the select
ReaderPhase1Message ==
    /\ r_pc = "phase1"
    /\ msgs < MaxEvents
    /\ msgs' = msgs + 1
    /\ \E ev \in ServerMsgs :
      /\ finals' = IF ev = "final" THEN Append(finals, msgs + 1) ELSE finals
      /\ LET r == IF kind = "deepgram"
                 THEN process_message(ev, collected, msgs + 1)
                 ELSE openai_phase1_message(ev, collected, msgs + 1)
        IN  /\ collected' = r.text
            /\ CASE r.act = "continue" ->
                        UNCHANGED <<r_pc, r_result, r_from, drain, err_sig>>
                 [] r.act = "return" ->
                        ReaderReturns(OkResult(r.text), "phase1_msg", FALSE)
                 [] OTHER ->
                        ReaderReturns(ErrResult, "phase1_msg", TRUE)
    /\ UNCHANGED <<kind, setup, audio, wire, total_samples, s_pc, s_result, done_sig,
                   keepalive, ka_cancel, outer>>
    /\ UNCHANGED <<accepted, captured, delivered>>
    /\ UNCHANGED NotStream

\* phase 2, the read.next() arm of the select
ReaderPhase2Message ==
    /\ r_pc = "phase2"
    /\ msgs < MaxEvents
    /\ msgs' = msgs + 1
    /\ \E ev \in ServerMsgs :
      /\ finals' = IF ev = "final" THEN Append(finals, msgs + 1) ELSE finals
      /\ LET r == IF kind = "deepgram"
                 THEN process_message(ev, collected, msgs + 1)
                 ELSE openai_phase2_message(ev, msgs + 1)
        IN  /\ collected' = IF kind = "deepgram" THEN r.text ELSE collected
            /\ CASE r.act = "continue" ->
                        UNCHANGED <<r_pc, r_result, r_from, drain, err_sig>>
                 [] r.act = "return" ->
                        ReaderReturns(OkResult(r.text), "phase2_msg", FALSE)
                 [] OTHER ->
                        ReaderReturns(ErrResult, "phase2_msg", FALSE)
    /\ UNCHANGED <<kind, setup, audio, wire, total_samples, s_pc, s_result, done_sig,
                   keepalive, ka_cancel, outer>>
    /\ UNCHANGED <<accepted, captured, delivered>>
    /\ UNCHANGED NotStream

\* phase 2, the deadline: Deepgram returns what it has collected, OpenAI an
\* empty string.
ReaderDrainTimeout ==
    /\ r_pc = "phase2"
    /\ drain = 0
    /\ ReaderReturns(OkResult(IF kind = "deepgram" THEN trim(collected)
                               ELSE <<>>),
                     "drain_timeout", FALSE)
    /\ UNCHANGED <<kind, setup, audio, wire, total_samples, s_pc, s_result, done_sig,
                   keepalive, ka_cancel, collected, msgs, finals, outer>>
    /\ UNCHANGED <<accepted, captured, delivered>>
    /\ UNCHANGED NotStream

Min(a, b) == IF a < b THEN a ELSE b

\* Time passes up to the next deadline.  Steps that are ready the moment
\* their task is polled (a resolved oneshot, a finished join handle, an
\* expired timer) are taken first.
TimePasses ==
    /\ ~(r_pc = "phase1" /\ done_sig.st # "pending")
    /\ ~(s_pc = "wait" /\ (r_pc = "returned" \/ outer = 0))
    /\ ~(r_pc = "phase2" /\ drain = 0)
    /\ outer > 0 \/ drain > 0
    /\ LET d == IF outer > 0 /\ drain > 0 THEN Min(outer, drain)
                ELSE IF outer > 0 THEN outer ELSE drain
       IN  /\ outer' = IF outer > 0 THEN outer - d ELSE outer
           /\ drain' = IF drain > 0 THEN drain - d ELSE drain
    /\ UNCHANGED <<kind, setup, audio, wire, total_samples, s_pc, s_result, done_sig,
                   err_sig, keepalive, ka_cancel, r_pc, r_result, r_from,
                   collected, msgs, finals>>
    /\ UNCHANGED <<accepted, captured, delivered>>
    /\ UNCHANGED NotStream

NextStream ==
    \/ AdapterForward
    \/ SendSessionUpdate
    \/ SetupMessage
    \/ SetupTimeout
    \/ SendAudio
    \/ AudioClosed
    \/ AwaitKeepalive
    \/ KeepaliveExit
    \/ SendCloseMarker
    \/ SignalDone
    \/ JoinReader
    \/ ReadHandleTimeout
    \/ ReaderDone
    \/ ReaderPhase1Message
    \/ ReaderPhase2Message
    \/ ReaderDrainTimeout
    \/ TimePasses

\* deepgram_realtime.rs:115-126, 132-183: the future of
\* transcribe_stream_impl is dropped at one of its await points, and with
\* it done_tx, the keepalive cancel sender and the join handles; the
\* spawned tasks are detached, not aborted
OuterDropped ==
    /\ s_pc \in {"configure", "setup", "stream", "cancel_keepalive", "close",
                 "wait"}
    /\ s_pc' = "dropped"
    /\ done_sig' = IF done_sig.st = "pending"
                   THEN [st |-> "dropped", total |-> 0] ELSE done_sig
    /\ ka_cancel' = TRUE
    /\ outer' = -1
    /\ UNCHANGED <<kind, setup, accepted, captured, delivered, audio, wire,
                   total_samples, s_result, err_sig, keepalive, r_pc,
                   r_result, r_from, collected, msgs, finals, drain>>
    /\ UNCHANGED NotStream

\* deepgram_realtime.rs:212-242: the cancel_rx arm of the keepalive's select
KeepaliveCancelled == KeepaliveExit /\ ka_cancel

NextStreamDroppable ==
    \/ NextStream
    \/ OuterDropped

\* spawned tasks are polled when a branch of their select is ready, the
\* sender goes on, and time advances
StreamFairness ==
    /\ WF_vars(KeepaliveCancelled)
    /\ WF_vars(ReaderDone) /\ WF_vars(ReaderDrainTimeout)
    /\ WF_vars(TimePasses)

(***************************************************************************)
(* CLI record pipeline, post-processing phase:                             *)
(* whis-cli/src/commands/record/pipeline/process.rs                        *)
(***************************************************************************)
\* Preset.post_processor: absent, a processor name, or a string that does
\* not parse
PresetProcessors == {"absent", "bad"} \cup PostProcessor

CliInputs ==
    {i \in [enabled : BOOLEAN,
            preset : {"none"} \cup PresetProcessors,
            preset_model : BOOLEAN,
            settings_processor : PostProcessor,
            api_key : BOOLEAN,
            ollama_url : BOOLEAN,
            ollama_up : BOOLEAN,
            ollama_model : BOOLEAN,
            quiet : BOOLEAN] :
        /\ i.preset = "none" => ~i.preset_model
        /\ ~i.ollama_url => ~i.ollama_up}

\* Result<ProcessedResult>
CliNoResult == [ok |-> FALSE, set |-> FALSE, text |-> "-"]
CliOk(t) == [ok |-> TRUE, set |-> TRUE, text |-> t]
CliErr == [ok |-> FALSE, set |-> TRUE, text |-> "-"]

NoCfg == [ok |-> FALSE, processor |-> "None", model |-> FALSE]

\* post_processing.rs:286-369
resolve_post_processor_config(i) ==
    LET processor ==
            IF i.preset \in PostProcessor THEN i.preset
            ELSE i.settings_processor
    IN  CASE processor = "Ollama" ->
                IF ~i.ollama_url \/ ~i.ollama_up THEN NoCfg
                ELSE IF ~(i.preset_model \/ i.ollama_model) THEN NoCfg
                ELSE [ok |-> TRUE, processor |-> "Ollama", model |-> TRUE]
          [] processor \in {"OpenAI", "Mistral"} ->
                IF ~i.api_key THEN NoCfg
                ELSE [ok |-> TRUE, processor |-> processor,
                      model |-> i.preset_model]
          [] OTHER -> NoCfg

CliOff ==
    /\ cli_in = CHOOSE i \in CliInputs :
                    /\ ~i.enabled /\ i.preset = "none" /\ i.quiet
                    /\ i.settings_processor = "None"
                    /\ ~i.api_key /\ ~i.ollama_url /\ ~i.ollama_model
    /\ cli_pc = "off" /\ cli_text = Raw /\ cli_cfg = NoCfg
    /\ cli_log = <<>> /\ cli_result = CliNoResult

CliInit ==
    /\ cli_in \in CliInputs
    /\ cli_pc = "entry" /\ cli_text = Raw /\ cli_cfg = NoCfg
    /\ cli_log = <<>> /\ cli_result = CliNoResult

\* process.rs:21-24 and 43: nothing to do
CliSkip ==
    /\ cli_pc = "entry"
    /\ ~(cli_in.enabled \/ cli_in.preset # "none")
    /\ cli_pc' = "returned"
    /\ cli_result' = CliOk(cli_text)
    /\ UNCHANGED <<cli_in, cli_text, cli_cfg, cli_log>>
    /\ UNCHANGED NotCli

\* process.rs:24-38: resolve the configuration (`?`), re-warm Ollama, print
\* the status line
CliResolve ==
    /\ cli_pc = "entry"
    /\ cli_in.enabled \/ cli_in.preset # "none"
    /\ LET cfg == resolve_post_processor_config(cli_in) IN
        /\ cli_cfg' = cfg
        /\ IF ~cfg.ok
           THEN /\ cli_pc' = "returned"
                /\ cli_result' = CliErr
                /\ UNCHANGED cli_log
           ELSE /\ cli_pc' = "post_process"
                /\ cli_log' =
                       (IF cfg.processor = "Ollama" /\ cfg.model
                        THEN <<"preload">> ELSE <<>>)
                       \o (IF ~cli_in.quiet THEN <<"status">> ELSE <<>>)
                /\ UNCHANGED cli_result
    /\ UNCHANGED <<cli_in, cli_text>>
    /\ UNCHANGED NotCli

\* process.rs:40-43: text = post_process(...).await?; Ok(ProcessedResult)
CliPostProcess ==
    /\ cli_pc = "post_process"
    /\ cli_pc' = "returned"
    /\ \E ppOk \in BOOLEAN :
        IF ppOk
        THEN /\ cli_text' = Processed
             /\ cli_result' = CliOk(Processed)
        ELSE /\ cli_text' = cli_text
             /\ cli_result' = CliErr
    /\ UNCHANGED <<cli_in, cli_cfg, cli_log>>
    /\ UNCHANGED NotCli

NextCli ==
    \/ CliSkip
    \/ CliResolve
    \/ CliPostProcess

(***************************************************************************)
(* Mobile shell: whis-mobile/src/commands.rs                               *)
(***************************************************************************)
MobileInputs ==
    [op : {"transcribe_audio", "transcribe_streaming"},
     api_key : BOOLEAN,                         \* key of the transcription provider
     post_processor : PostProcessor \cup {"bad"},
     active_preset : BOOLEAN,
     pp_key : BOOLEAN]                          \* key of the post-processor

NoMobOut == [result |-> "none", clip |-> "none", events |-> <<>>]

\* commands.rs:65-81
is_post_processing_enabled(i) ==
    i.post_processor # "None" /\ i.active_preset

\* commands.rs:90-165: the text returned and the events emitted
apply_post_processing(i, text, dirOk, loadOk, ppOk) ==
    LET post_processor ==
            IF i.post_processor = "bad" THEN "None" ELSE i.post_processor
        skip == [text |-> text, events |-> <<>>]
    IN  IF post_processor = "None" THEN skip
        ELSE IF ~i.active_preset THEN skip
        ELSE IF ~dirOk \/ ~loadOk THEN skip
        ELSE IF ~(post_processor \in {"OpenAI", "Mistral"} /\ i.pp_key) THEN skip
        ELSE IF ppOk THEN [text |-> Processed, events |-> <<>>]
        ELSE [text |-> text, events |-> <<"post-process-warning">>]

\* the post-processing step of both paths: post-processing-started, then
\* apply_post_processing
PostProcessed(i, text) ==
    {[text |-> r.text,
      events |-> (IF is_post_processing_enabled(i)
                  THEN <<"post-processing-started">> ELSE <<>>) \o r.events] :
        r \in {apply_post_processing(i, text, d, l, k) :
                    d \in BOOLEAN, l \in BOOLEAN, k \in BOOLEAN}}

MobileOff ==
    /\ recording_state = "Idle" /\ audio_tx = FALSE
    /\ mob_in = [op |-> "transcribe_audio", api_key |-> FALSE,
                 post_processor |-> "None", active_preset |-> FALSE,
                 pp_key |-> FALSE]
    /\ mob_pc = "off" /\ mob_task = "none" /\ mob_text = Raw
    /\ mob_out = NoMobOut /\ mob_chunks = 0

\* lib.rs:14-17: recording_state starts Idle
MobileInit ==
    /\ recording_state = "Idle" /\ audio_tx = FALSE
    /\ mob_in \in MobileInputs
    /\ mob_pc = "ready" /\ mob_task = "none" /\ mob_text = Raw
    /\ mob_out = NoMobOut /\ mob_chunks = 0

MobReturn(res) ==
    /\ mob_pc' = "returned"
    /\ mob_out' = [mob_out EXCEPT !.result = res]

\* commands.rs:177-181: transcribe_audio sets Transcribing
TaEnter ==
    /\ mob_pc = "ready" /\ mob_in.op = "transcribe_audio"
    /\ recording_state' = "Transcribing"
    /\ mob_pc' = "ta_config"
    /\ UNCHANGED <<audio_tx, mob_in, mob_task, mob_text, mob_out, mob_chunks>>
    /\ UNCHANGED NotMobile

\* commands.rs:183-205: the settings store and the API key, each with `?`
TaConfig ==
    /\ mob_pc = "ta_config"
    /\ \E storeOk \in BOOLEAN :
        IF ~storeOk THEN MobReturn("err_store")
        ELSE IF ~mob_in.api_key THEN MobReturn("err_no_api_key")
        ELSE mob_pc' = "ta_transcribe" /\ UNCHANGED mob_out
    /\ UNCHANGED <<recording_state, audio_tx, mob_in, mob_task, mob_text,
                   mob_chunks>>
    /\ UNCHANGED NotMobile

\* commands.rs:218-231: spawn_blocking(transcribe_audio_with_format), `?` twice
TaTranscribe ==
    /\ mob_pc = "ta_transcribe"
    /\ \E r \in {"ok", "join_err", "err"} :
        IF r = "ok" THEN mob_pc' = "ta_post" /\ UNCHANGED mob_out
        ELSE MobReturn("err_transcription")
    /\ UNCHANGED <<recording_state, audio_tx, mob_in, mob_task, mob_text,
                   mob_chunks>>
    /\ UNCHANGED NotMobile

\* commands.rs:233-237
TaPostProcess ==
    /\ mob_pc = "ta_post"
    /\ \E r \in PostProcessed(mob_in, mob_text) :
        /\ mob_text' = r.text
        /\ mob_out' = [mob_out EXCEPT !.events = r.events]
    /\ mob_pc' = "ta_clip"
    /\ UNCHANGED <<recording_state, audio_tx, mob_in, mob_task, mob_chunks>>
    /\ UNCHANGED NotMobile

\* commands.rs:239-251: clipboard (`?`), state back to Idle, Ok(final_text)
TaClipboard ==
    /\ mob_pc = "ta_clip"
    /\ mob_pc' = "returned"
    /\ \E clipOk \in BOOLEAN :
        IF clipOk
        THEN /\ mob_out' = [mob_out EXCEPT !.clip = mob_text, !.result = "ok"]
             /\ recording_state' = "Idle"
        ELSE /\ mob_out' = [mob_out EXCEPT !.result = "err_clipboard"]
             /\ UNCHANGED recording_state
    /\ UNCHANGED <<audio_tx, mob_in, mob_task, mob_text, mob_chunks>>
    /\ UNCHANGED NotMobile

\* commands.rs:464-548: transcribe_streaming_start
StreamingStart ==
    /\ mob_pc = "ready" /\ mob_in.op = "transcribe_streaming"
    /\ \E storeOk \in BOOLEAN :
        IF ~storeOk \/ ~mob_in.api_key
        THEN /\ MobReturn(IF storeOk THEN "err_no_api_key" ELSE "err_store")
             /\ UNCHANGED <<recording_state, audio_tx, mob_task>>
        ELSE /\ recording_state' = "Transcribing"
             /\ audio_tx' = TRUE
             /\ mob_task' = "transcribing"
             /\ mob_pc' = "started"
             /\ UNCHANGED mob_out
    /\ UNCHANGED <<mob_in, mob_text, mob_chunks>>
    /\ UNCHANGED NotMobile

\* commands.rs:554-571: transcribe_streaming_send_chunk
StreamingSendChunk ==
    /\ mob_pc = "started"
    /\ audio_tx
    /\ mob_chunks < MaxChunks
    /\ mob_chunks' = mob_chunks + 1
    /\ UNCHANGED <<recording_state, audio_tx, mob_in, mob_pc, mob_task,
                   mob_text, mob_out>>
    /\ UNCHANGED NotMobile

\* commands.rs:578-586: transcribe_streaming_stop drops the sender
StreamingStop ==
    /\ mob_pc = "started"
    /\ audio_tx' = FALSE
    /\ mob_pc' = "stopped"
    /\ UNCHANGED <<recording_state, mob_in, mob_task, mob_text, mob_out,
                   mob_chunks>>
    /\ UNCHANGED NotMobile

\* commands.rs:508-532: the spawned task.  transcribe_stream returns Ok only
\* once the audio channel is closed; it can fail at any time.
StreamingTaskTranscribed ==
    /\ mob_task = "transcribing"
    /\ \E ok \in {TRUE, FALSE} :
        IF ok
        THEN /\ ~audio_tx
             /\ \E storeOk \in BOOLEAN :
                 \E r \in (IF storeOk THEN PostProcessed(mob_in, mob_text)
                           ELSE {[text |-> mob_text, events |-> <<>>]}) :
                    /\ mob_text' = r.text
                    /\ mob_out' = [mob_out EXCEPT !.events = r.events]
             /\ mob_task' = "clipboard"
        ELSE /\ mob_out' = [mob_out EXCEPT
                    !.events = Append(@, "transcription-error"),
                    !.result = "err_transcription"]
             /\ mob_task' = "reset_state"
             /\ UNCHANGED mob_text
    /\ UNCHANGED <<recording_state, audio_tx, mob_in, mob_pc, mob_chunks>>
    /\ UNCHANGED NotMobile

\* commands.rs:520-527: clipboard; on failure emit transcription-error and
\* `return` from the task
StreamingTaskClipboard ==
    /\ mob_task = "clipboard"
    /\ \E clipOk \in BOOLEAN :
        IF clipOk
        THEN /\ mob_out' = [mob_out EXCEPT
                    !.clip = mob_text,
                    !.events = Append(@, "transcription-complete"),
                    !.result = "ok"]
             /\ mob_task' = "reset_state"
        ELSE /\ mob_out' = [mob_out EXCEPT
                    !.events = Append(@, "transcription-error"),
                    !.result = "err_clipboard"]
             /\ mob_task' = "ended"
    /\ UNCHANGED <<recording_state, audio_tx, mob_in, mob_pc, mob_text,
                   mob_chunks>>
    /\ UNCHANGED NotMobile

\* commands.rs:534-538
StreamingTaskResetState ==
    /\ mob_task = "reset_state"
    /\ recording_state' = "Idle"
    /\ mob_task' = "clear_tx"
    /\ UNCHANGED <<audio_tx, mob_in, mob_pc, mob_text, mob_out, mob_chunks>>
    /\ UNCHANGED NotMobile

\* commands.rs:540-544
StreamingTaskClearTx ==
    /\ mob_task = "clear_tx"
    /\ audio_tx' = FALSE
    /\ mob_task' = "ended"
    /\ UNCHANGED <<recording_state, mob_in, mob_pc, mob_text, mob_out,
                   mob_chunks>>
    /\ UNCHANGED NotMobile

NextMobile ==
    \/ TaEnter
    \/ TaConfig
    \/ TaTranscribe
    \/ TaPostProcess
    \/ TaClipboard
    \/ StreamingStart
    \/ StreamingSendChunk
    \/ StreamingStop
    \/ StreamingTaskTranscribed
    \/ StreamingTaskClipboard
    \/ StreamingTaskResetState
    \/ StreamingTaskClearTx

(***************************************************************************)
(* Local engine cache: whis-core/src/provider/local_whisper.rs and         *)
(* local_parakeet.rs.  Each file keeps its own cache in a static of its    *)
(* own, with the same code; eng_kind says which of the two is modelled.    *)
(***************************************************************************)
EngineKinds == {"whisper", "parakeet"}

NoPath == "-"

\* model paths: two models on disk, an unset path, a path with no file
ModelPaths == {"P", "Q", "", "missing"}

PathExists(path) == path \in {"P", "Q"}

Calls == 1..MaxCalls

NoCall == [op |-> "none", path |-> NoPath, pc |-> "ready", result |-> "none",
           began_after |-> 0, keep_at_return |-> FALSE,
           slot_at_return |-> NoPath]

CallsDone == Cardinality({c \in Calls : call[c].pc = "done"})

EngineOff ==
    /\ eng_kind = "whisper"
    /\ slot = NoPath /\ KEEP_LOADED = FALSE /\ loading = NoPath
    /\ cache_lock = 0 /\ eng_log = <<>>
    /\ call = [c \in Calls |-> [NoCall EXCEPT !.pc = "off"]]

\* static WHISPER_ENGINE / PARAKEET_ENGINE: empty; KEEP_LOADED: false
EngineInit ==
    /\ eng_kind \in EngineKinds
    /\ slot = NoPath /\ KEEP_LOADED = FALSE /\ loading = NoPath
    /\ cache_lock = 0 /\ eng_log = <<>>
    /\ call = [c \in Calls |-> NoCall]

\* a call returns: what it returned, and the flag and the slot at that moment
CallReturns(c, res, newSlot) ==
    [call[c] EXCEPT !.pc = "done", !.result = res,
                    !.keep_at_return = KEEP_LOADED,
                    !.slot_at_return = newSlot]

\* after get_or_load_engine returned Ok: transcribe_samples goes on, the
\* other callers are done
AfterGetOrLoad(c, newSlot) ==
    IF call[c].op = "transcribe"
    THEN [call[c] EXCEPT !.pc = "tr_lock"]
    ELSE CallReturns(c, "ok", newSlot)

\* calls are numbered in the order they are made
NextCall(c) ==
    /\ call[c].pc = "ready"
    /\ \A d \in Calls : d < c => call[d].pc # "ready"

\* a caller enters get_or_load_engine, transcribe_samples or the preload
\* function
CallBegin(c) ==
    /\ NextCall(c)
    /\ \E op \in {"get_or_load_engine", "transcribe", "preload"},
          path \in ModelPaths :
        call' = [call EXCEPT ![c] =
                    [NoCall EXCEPT !.op = op, !.path = path,
                                   !.pc = IF op = "preload" THEN "preload"
                                          ELSE "gol",
                                   !.began_after = CallsDone]]
    /\ UNCHANGED <<eng_kind, slot, KEEP_LOADED, loading, cache_lock, eng_log>>
    /\ UNCHANGED NotEngine

\* local_whisper.rs:338-357, local_parakeet.rs:241-265: skip when the engine
\* is cached, else load on a spawned thread
Preload(c) ==
    /\ call[c].pc = "preload"
    /\ cache_lock = 0
    /\ call' = [call EXCEPT ![c] =
                    IF slot = call[c].path THEN CallReturns(c, "ok", slot)
                    ELSE [call[c] EXCEPT !.pc = "gol"]]
    /\ UNCHANGED <<eng_kind, slot, KEEP_LOADED, loading, cache_lock, eng_log>>
    /\ UNCHANGED NotEngine

\* get_or_load_engine without the early return for an engine already cached
GetOrLoadAlwaysLoads(c) ==
    /\ call[c].pc = "gol"
    /\ cache_lock = 0
    /\ IF call[c].path = "" \/ ~PathExists(call[c].path)
       THEN /\ call' = [call EXCEPT ![c] = CallReturns(c, "err", slot)]
            /\ UNCHANGED <<loading, cache_lock, eng_log>>
       ELSE /\ loading' = call[c].path
            /\ cache_lock' = c
            /\ eng_log' = Append(eng_log, <<"load", call[c].path>>)
            /\ call' = [call EXCEPT ![c].pc = "gol_store"]
    /\ UNCHANGED <<eng_kind, slot, KEEP_LOADED>>
    /\ UNCHANGED NotEngine

\* local_whisper.rs:184-221, local_parakeet.rs:177-211: get_or_load_engine
\* up to the loaded engine held in a local, the cache mutex being held
GetOrLoad(c) ==
    /\ call[c].pc = "gol"
    /\ cache_lock = 0
    /\ IF slot = call[c].path
       THEN /\ call' = [call EXCEPT ![c] = AfterGetOrLoad(c, slot)]
            /\ UNCHANGED <<loading, cache_lock, eng_log>>
       ELSE IF call[c].path = "" \/ ~PathExists(call[c].path)
       THEN /\ call' = [call EXCEPT ![c] = CallReturns(c, "err", slot)]
            /\ UNCHANGED <<loading, cache_lock, eng_log>>
       ELSE \E loadOk \in BOOLEAN :
            IF loadOk
            THEN /\ loading' = call[c].path
                 /\ cache_lock' = c
                 /\ eng_log' = Append(eng_log, <<"load", call[c].path>>)
                 /\ call' = [call EXCEPT ![c].pc = "gol_store"]
            ELSE /\ call' = [call EXCEPT ![c] = CallReturns(c, "err", slot)]
                 /\ UNCHANGED <<loading, cache_lock, eng_log>>
    /\ UNCHANGED <<eng_kind, slot, KEEP_LOADED>>
    /\ UNCHANGED NotEngine

\* local_whisper.rs:228-233, local_parakeet.rs:215-220: *cache = Some(..)
\* puts the new engine in the slot and drops the one it held
GetOrLoadStore(c) ==
    /\ call[c].pc = "gol_store"
    /\ cache_lock = c
    /\ slot' = loading
    /\ loading' = NoPath
    /\ eng_log' = IF slot # NoPath
                  THEN Append(eng_log, <<"unload", slot>>) ELSE eng_log
    /\ cache_lock' = 0
    /\ call' = [call EXCEPT ![c] = AfterGetOrLoad(c, loading)]
    /\ UNCHANGED <<eng_kind, KEEP_LOADED>>
    /\ UNCHANGED NotEngine

\* local_whisper.rs:248-281, local_parakeet.rs:77-123: lock the cache again
\* and run the engine found there
TranscribeWithEngine(c) ==
    /\ call[c].pc = "tr_lock"
    /\ cache_lock = 0
    /\ IF slot = NoPath
       THEN call' = [call EXCEPT ![c] = CallReturns(c, "err", slot)]
       ELSE \E ok \in BOOLEAN :
            call' = [call EXCEPT ![c] =
                        IF ok THEN [call[c] EXCEPT !.pc = "tr_unload"]
                        ELSE CallReturns(c, "err", slot)]
    /\ UNCHANGED <<eng_kind, slot, KEEP_LOADED, loading, cache_lock, eng_log>>
    /\ UNCHANGED NotEngine

\* local_whisper.rs:283-288 and 325-329, local_parakeet.rs:125-128 and
\* 297-301: maybe_unload, then Ok
TranscribeMaybeUnload(c) ==
    /\ call[c].pc = "tr_unload"
    /\ cache_lock = 0
    /\ slot' = IF KEEP_LOADED THEN slot ELSE NoPath
    /\ eng_log' = IF ~KEEP_LOADED /\ slot # NoPath
                  THEN Append(eng_log, <<"unload", slot>>) ELSE eng_log
    /\ call' = [call EXCEPT ![c] =
                    CallReturns(c, "ok", IF KEEP_LOADED THEN slot ELSE NoPath)]
    /\ UNCHANGED <<eng_kind, KEEP_LOADED, loading, cache_lock>>
    /\ UNCHANGED NotEngine

\* local_whisper.rs:302-305, local_parakeet.rs:274-277
set_keep_loaded(c, keep) ==
    /\ NextCall(c)
    /\ KEEP_LOADED' = keep
    /\ call' = [call EXCEPT ![c] =
                    [NoCall EXCEPT !.op = "set_keep_loaded", !.pc = "done",
                                   !.result = "ok", !.began_after = CallsDone,
                                   !.keep_at_return = keep,
                                   !.slot_at_return = slot]]
    /\ UNCHANGED <<eng_kind, slot, loading, cache_lock, eng_log>>
    /\ UNCHANGED NotEngine

\* local_whisper.rs:316-322 unload_model, local_parakeet.rs:288-294
\* unload_parakeet
unload_model(c) ==
    /\ NextCall(c)
    /\ cache_lock = 0
    /\ slot' = NoPath
    /\ eng_log' = IF slot # NoPath
                  THEN Append(eng_log, <<"unload", slot>>) ELSE eng_log
    /\ call' = [call EXCEPT ![c] =
                    [NoCall EXCEPT !.op = "unload", !.pc = "done",
                                   !.result = "ok", !.began_after = CallsDone,
                                   !.keep_at_return = KEEP_LOADED,
                                   !.slot_at_return = NoPath]]
    /\ UNCHANGED <<eng_kind, KEEP_LOADED, loading, cache_lock>>
    /\ UNCHANGED NotEngine

NextEngine ==
    \/ \E c \in Calls :
        \/ CallBegin(c)
        \/ Preload(c)
        \/ GetOrLoad(c)
        \/ GetOrLoadStore(c)
        \/ TranscribeWithEngine(c)
        \/ TranscribeMaybeUnload(c)
        \/ \E keep \in BOOLEAN : set_keep_loaded(c, keep)
        \/ unload_model(c)

(***************************************************************************)
(* The phase-2 budget of collect_transcripts, for every sample count:      *)
(* deepgram_realtime.rs:286-300, openai_realtime.rs:425-440.               *)
(***************************************************************************)
\* sample counts: every half second of audio up to MaxAudioHalfSecs
DrainTotals == {n * (SAMPLE_RATE \div 2) : n \in 0..MaxAudioHalfSecs}

BudgetOff == dr_kind = "deepgram" /\ dr_total = 0 /\ dr_budget = -1

BudgetInit ==
    /\ dr_kind \in {"deepgram", "openai"}
    /\ dr_total \in DrainTotals
    /\ dr_budget = -1

\* let timeout_duration = Duration::from_secs_f64(post_close_timeout_secs)
\* (Deepgram) / Duration::from_secs(phase2_timeout_secs) (OpenAI)
ComputeBudget ==
    /\ dr_budget = -1
    /\ dr_budget' = DrainMs(dr_kind, dr_total)
    /\ UNCHANGED <<dr_kind, dr_total>>
    /\ UNCHANGED NotBudget

NextBudget == ComputeBudget

(***************************************************************************)
(* The capture callback and its error handler:                             *)
(* whis-core/src/audio/recorder/stream.rs, build_stream.                   *)
(***************************************************************************)
CaptureOff ==
    /\ STREAM_ERROR_COUNT = 0 /\ cap_chan = 0
    /\ cap_calls = MaxCallbacks /\ cap_dropped = 0

\* a recording has started: reset_stream_error_count (lines 17-19)
CaptureInit ==
    /\ STREAM_ERROR_COUNT = 0 /\ cap_chan = 0
    /\ cap_calls = 0 /\ cap_dropped = 0

\* lines 46-63, err_fn: count the device error (the log lines are rate
\* limited: the first, then every 1000th)
StreamError ==
    /\ cap_calls < MaxCallbacks
    /\ STREAM_ERROR_COUNT < MaxStreamErrors
    /\ STREAM_ERROR_COUNT' = STREAM_ERROR_COUNT + 1
    /\ UNCHANGED <<cap_chan, cap_calls, cap_dropped>>
    /\ UNCHANGED NotCapture

\* lines 67-89, the data callback: process the samples and, when any are
\* left, let _ = tx.try_send(processed_samples)
DataCallback ==
    /\ cap_calls < MaxCallbacks
    /\ cap_calls' = cap_calls + 1
    /\ \E processedEmpty \in BOOLEAN :
        IF processedEmpty
        THEN UNCHANGED <<cap_chan, cap_dropped>>
        ELSE IF cap_chan < StreamChannelCapacity
        THEN cap_chan' = cap_chan + 1 /\ UNCHANGED cap_dropped
        ELSE cap_dropped' = cap_dropped + 1 /\ UNCHANGED cap_chan
    /\ UNCHANGED STREAM_ERROR_COUNT
    /\ UNCHANGED NotCapture

\* the consumer of the stream channel takes a frame
StreamReceive ==
    /\ cap_chan > 0
    /\ cap_chan' = cap_chan - 1
    /\ UNCHANGED <<STREAM_ERROR_COUNT, cap_calls, cap_dropped>>
    /\ UNCHANGED NotCapture

NextCapture ==
    \/ StreamError
    \/ DataCallback
    \/ StreamReceive

(***************************************************************************)
(* The chunked branch of a desktop recording: the chunker, the             *)
(* transcription task (control.rs 166-204, transcribe.rs 131-232) and      *)
(* stop_and_transcribe (pipeline.rs).  A transcript is recorded as the     *)
(* indices of the chunks whose transcriptions merge_transcriptions is      *)
(* given; Raw in ch_out stands for the text the task returned.             *)
(***************************************************************************)
ChunkedProviders == {"OpenAI", "LocalWhisper", "LocalParakeet"}

NoTaskResult == [ok |-> FALSE, of |-> <<>>, sent |-> FALSE]

ChunkedOff ==
    /\ ch_provider = "OpenAI" /\ ch_path = "none" /\ ch_pc = "off"
    /\ ch_capturing = FALSE /\ ch_next = 0 /\ ch_closed = TRUE
    /\ ch_queue = <<>> /\ ch_texts = <<>> /\ ch_requests = <<>>
    /\ ch_result = NoTaskResult /\ ch_state = "Idle" /\ ch_out = NoOut

\* start_recording_sync has returned: the stream is open, the chunker and
\* the transcription task are spawned, the state is Recording
ChunkedInit ==
    /\ ch_provider \in ChunkedProviders /\ ch_path = "none" /\ ch_pc = "spawned"
    /\ ch_capturing = TRUE /\ ch_next = 0 /\ ch_closed = FALSE
    /\ ch_queue = <<>> /\ ch_texts = <<>> /\ ch_requests = <<>>
    /\ ch_result = NoTaskResult /\ ch_state = "Recording" /\ ch_out = NoOut

\* control.rs 167-190 with transcribe.rs 138-141, 200-202: the task picks
\* the function by the provider kind; the cloud function first builds the
\* HTTP client and looks the backend up in the registry
TaskBegin ==
    /\ ch_pc = "spawned"
    /\ \E ready \in BOOLEAN :
       /\ ch_path' = IF ch_provider = "LocalParakeet" THEN "local" ELSE "cloud"
       /\ IF ready
          THEN ch_pc' = "loop" /\ UNCHANGED ch_result
          ELSE /\ ch_pc' = "returned"
               /\ ch_result' = [ok |-> FALSE, of |-> <<>>, sent |-> TRUE]
    /\ UNCHANGED <<ch_provider, ch_capturing, ch_next, ch_closed, ch_queue,
                   ch_texts, ch_requests, ch_state, ch_out>>
    /\ UNCHANGED NotChunked

\* control.rs 161-164: the chunker emits the next chunk
ChunkerEmit ==
    /\ ~ch_closed
    /\ ch_next < MaxChunks
    /\ ch_queue' = Append(ch_queue, ch_next)
    /\ ch_next' = ch_next + 1
    /\ UNCHANGED <<ch_provider, ch_path, ch_pc, ch_capturing, ch_closed,
                   ch_texts, ch_requests, ch_result, ch_state, ch_out>>
    /\ UNCHANGED NotChunked

\* control.rs 161-164: the audio has ended, consume_stream returns and the
\* chunker with its chunk_tx is dropped
ChunkerClose ==
    /\ ~ch_closed
    /\ ~ch_capturing
    /\ ch_closed' = TRUE
    /\ UNCHANGED <<ch_provider, ch_path, ch_pc, ch_capturing, ch_next,
                   ch_queue, ch_texts, ch_requests, ch_result, ch_state, ch_out>>
    /\ UNCHANGED NotChunked

\* transcribe.rs 145-172 (cloud) and 206-226 (local): one turn of the loop.
\* The cloud function encodes the chunk and calls the backend's
\* transcribe_async, which for LocalWhisper bails (local_whisper.rs
\* 139-148); the local function calls the Parakeet engine.  Every failure
\* leaves through `?`.
TaskChunk ==
    /\ ch_pc = "loop"
    /\ ch_queue # <<>>
    /\ \E encodeOk \in BOOLEAN, callOk \in BOOLEAN :
       LET c == Head(ch_queue)
           via == IF ch_path = "local" THEN "parakeet_engine" ELSE "backend"
           encoded == ch_path = "local" \/ encodeOk
           ok == /\ encoded
                 /\ callOk
                 /\ ~(ch_path = "cloud" /\ ch_provider = "LocalWhisper")
       IN
       /\ ch_queue' = Tail(ch_queue)
       /\ ch_requests' = IF encoded
                         THEN Append(ch_requests, [chunk |-> c, via |-> via])
                         ELSE ch_requests
       /\ IF ok
          THEN /\ ch_texts' = Append(ch_texts, c)
               /\ UNCHANGED <<ch_pc, ch_result>>
          ELSE /\ ch_pc' = "returned"
               /\ ch_result' = [ok |-> FALSE, of |-> <<>>, sent |-> TRUE]
               /\ UNCHANGED ch_texts
    /\ UNCHANGED <<ch_provider, ch_path, ch_capturing, ch_next, ch_closed,
                   ch_state, ch_out>>
    /\ UNCHANGED NotChunked

\* transcribe.rs 179, 231: the channel has closed;
\* Ok(merge_transcriptions(transcriptions))
TaskFinish ==
    /\ ch_pc = "loop"
    /\ ch_queue = <<>>
    /\ ch_closed
    /\ ch_pc' = "returned"
    /\ ch_result' = [ok |-> TRUE, of |-> ch_texts, sent |-> TRUE]
    /\ UNCHANGED <<ch_provider, ch_path, ch_capturing, ch_next, ch_closed,
                   ch_queue, ch_texts, ch_requests, ch_state, ch_out>>
    /\ UNCHANGED NotChunked

\* pipeline.rs 19-33: stop the recorder; on success the state becomes
\* Transcribing, on failure the call returns with the recorder dropped
StopRecording ==
    /\ ch_state = "Recording"
    /\ ch_capturing
    /\ ch_capturing' = FALSE
    /\ \E stopOk \in BOOLEAN :
       IF stopOk
       THEN ch_state' = "Transcribing" /\ UNCHANGED ch_out
       ELSE ch_out' = [NoOut EXCEPT !.result = "stop_err"] /\ UNCHANGED ch_state
    /\ UNCHANGED <<ch_provider, ch_path, ch_pc, ch_next, ch_closed, ch_queue,
                   ch_texts, ch_requests, ch_result>>
    /\ UNCHANGED NotChunked

\* pipeline.rs 36-44, 57-165: await the task's result, run the rest of the
\* pipeline on a transcript, reset the state to Idle
PipelineAwait ==
    /\ ch_state = "Transcribing"
    /\ ch_result.sent
    /\ IF ch_result.ok
       THEN ch_out' \in PipelineOutcomes(NoOut)
       ELSE ch_out' = [NoOut EXCEPT !.result = "err_transcription"]
    /\ ch_state' = "Idle"
    /\ UNCHANGED <<ch_provider, ch_path, ch_pc, ch_capturing, ch_next,
                   ch_closed, ch_queue, ch_texts, ch_requests, ch_result>>
    /\ UNCHANGED NotChunked

NextChunked ==
    \/ TaskBegin
    \/ ChunkerEmit
    \/ ChunkerClose
    \/ TaskChunk
    \/ TaskFinish
    \/ StopRecording
    \/ PipelineAwait

(***************************************************************************)
(* The merger: whis-core/src/transcription/transcribe.rs, lines 14-111.    *)
(* A text is a sequence of characters: Space, or a letter, a non-zero      *)
(* integer whose negation is the same letter in the other case.            *)
(***************************************************************************)
MAX_OVERLAP_WORDS == 15

\* str::split_whitespace: the maximal runs of letters, in order; the n-th
\* word runs from the n-th place a word starts to the n-th place one ends
split_whitespace(t) ==
    LET starts == {i \in 1..Len(t) : t[i] # Space /\ (i = 1 \/ t[i - 1] = Space)}
        ends == {i \in 1..Len(t) :
                    t[i] # Space /\ (i = Len(t) \/ t[i + 1] = Space)}
        nth(S, n) == CHOOSE x \in S : Cardinality({y \in S : y < x}) = n - 1
    IN [n \in 1..Cardinality(starts) |->
           SubSeq(t, nth(starts, n), nth(ends, n))]

\* [&str]::join(" "), halving the slice
RECURSIVE join(_)
join(words) ==
    IF words = <<>> THEN <<>>
    ELSE IF Len(words) = 1 THEN words[1]
    ELSE LET h == Len(words) \div 2 IN
         join(SubSeq(words, 1, h)) \o <<Space>>
             \o join(SubSeq(words, h + 1, Len(words)))

\* str::eq_ignore_ascii_case on two words
eq_ignore_ascii_case(a, b) ==
    /\ Len(a) = Len(b)
    /\ \A k \in 1..Len(a) :
          (IF a[k] < 0 THEN -a[k] ELSE a[k]) = (IF b[k] < 0 THEN -b[k] ELSE b[k])

\* remove_overlap stopping at the first overlap length that matches
remove_overlap_KeepsFirstMatch(existing, new_text) ==
    LET existing_words == split_whitespace(existing)
        new_words == split_whitespace(new_text)
        search_end == Min(Len(existing_words), MAX_OVERLAP_WORDS)
        search_new == Min(Len(new_words), MAX_OVERLAP_WORDS)
        matches(n) ==
            \A k \in 1..n :
                eq_ignore_ascii_case(existing_words[Len(existing_words) - n + k],
                                     new_words[k])
        matching == {n \in 1..Min(search_end, search_new) : matches(n)}
        best_overlap == IF matching = {} THEN 0
                        ELSE CHOOSE n \in matching : \A m \in matching : n <= m
    IN
    IF existing_words = <<>> \/ new_words = <<>> THEN new_text
    ELSE IF best_overlap > 0
    THEN join(SubSeq(new_words, best_overlap + 1, Len(new_words)))
    ELSE new_text

\* lines 74-111.  The loop runs overlap_len upwards and overwrites
\* best_overlap on every match, so the last, largest, match is kept.
remove_overlap(existing, new_text) ==
    LET existing_words == split_whitespace(existing)
        new_words == split_whitespace(new_text)
        search_end == Min(Len(existing_words), MAX_OVERLAP_WORDS)
        search_new == Min(Len(new_words), MAX_OVERLAP_WORDS)
        matches(n) ==
            \A k \in 1..n :
                eq_ignore_ascii_case(existing_words[Len(existing_words) - n + k],
                                     new_words[k])
        matching == {n \in 1..Min(search_end, search_new) : matches(n)}
        best_overlap == IF matching = {} THEN 0
                        ELSE CHOOSE n \in matching : \A m \in matching : n >= m
    IN
    IF existing_words = <<>> \/ new_words = <<>> THEN new_text
    ELSE IF best_overlap > 0
    THEN join(SubSeq(new_words, best_overlap + 1, Len(new_words)))
    ELSE new_text

\* lines 26-71
merge_transcriptions(transcriptions) ==
    LET \* lines 53-57 and 60-63: the separator rule, then push_str
        push(merged, piece) ==
            (IF /\ ~(merged # <<>> /\ merged[Len(merged)] = Space)
                /\ piece # <<>>
                /\ Head(piece) # Space
             THEN Append(merged, Space) ELSE merged) \o piece
        \* lines 36-65: the loop body for the i-th transcription, from 0
        body(merged, i, transcription) ==
            LET text == trim(transcription.text) IN
            IF i = 0 THEN merged \o text
            ELSE IF transcription.has_leading_overlap
            THEN LET cleaned_text == remove_overlap(merged, text) IN
                 IF trim(cleaned_text) = <<>> THEN merged
                 ELSE push(merged, cleaned_text)
            ELSE push(merged, text)
        RECURSIVE loop(_, _)
        loop(i, merged) ==
            IF i >= Len(transcriptions) THEN merged
            ELSE loop(i + 1, body(merged, i, transcriptions[i + 1]))
    IN
    IF transcriptions = <<>> THEN <<>>
    ELSE IF Len(transcriptions) = 1 THEN transcriptions[1].text
    ELSE loop(0, <<>>)

\* words i..j, one letter each, separated by single spaces; in upper case
\* when up
Run(i, j, up) == join([k \in 1..(j - i + 1) |-> <<IF up THEN -(i + k - 1) ELSE i + k - 1>>])

\* ChunkTranscription values for the texts, indexed from 0; the first has
\* no leading overlap
Transcriptions(texts, overlaps) ==
    [k \in 1..Len(texts) |->
        [index |-> k - 1, text |-> texts[k],
         has_leading_overlap |-> k > 1 /\ overlaps]]

\* The chunk texts tried exhaustively: every string of spaces and one
\* letter up to MaxTextLen
MergeTexts == SeqsUpTo({Space, 1}, MaxTextLen)

\* Pairs of longer texts tried on top of those: an overlap of two words,
\* one that differs in case, and overlaps of MAX_OVERLAP_WORDS words and
\* more; the second chunk with and without a leading overlap
MergeExamples ==
    LET N == MAX_OVERLAP_WORDS
        Pairs == {<<Run(3, 6, FALSE), Run(5, 8, FALSE)>>,
                  <<Run(3, 6, TRUE), Run(5, 8, FALSE)>>,
                  <<Run(1, N + 1, FALSE), Run(2, N + 2, FALSE)>>,
                  <<Run(1, N + 2, FALSE), Run(2, N + 2, FALSE)>>,
                  <<Run(1, N + 2, FALSE), Run(2, N + 3, FALSE)>>}
    IN {Transcriptions(p, o) : p \in Pairs, o \in BOOLEAN}

MergeOff == mg_in = <<>> /\ mg_done = TRUE /\ mg_out = <<>>

\* a call with up to MaxMergeChunks chunks of the small texts, each later
\* chunk with or without a leading overlap, or with one of the examples
MergeInit ==
    /\ \/ \E n \in 0..MaxMergeChunks :
             \E texts \in [1..n -> MergeTexts], overlaps \in [2..n -> BOOLEAN] :
                mg_in = [k \in 1..n |->
                            [index |-> k - 1, text |-> texts[k],
                             has_leading_overlap |-> k > 1 /\ overlaps[k]]]
       \/ mg_in \in MergeExamples
    /\ mg_done = FALSE
    /\ mg_out = <<>>

\* the call
Merge ==
    /\ ~mg_done
    /\ mg_done' = TRUE
    /\ mg_out' = merge_transcriptions(mg_in)
    /\ UNCHANGED mg_in
    /\ UNCHANGED NotMerge

NextMerge == Merge

(***************************************************************************)
(* The audio front end: the no-op VadProcessor                             *)
(* (audio/vad/processor_noop.rs) and resample_to_16k (resample.rs).        *)
(* A sample is an integer standing for one f32 value.                      *)
(***************************************************************************)
WHISPER_SAMPLE_RATE == 16000

SampleBuffers == SeqsUpTo({-1, 0, 1}, MaxSamples)

\* resample.rs 67-72: the frames of `channels` samples (the last one
\* possibly short), each averaged: the pair <<sum, channels>> is the quotient
stereo_to_mono(samples, channels) ==
    LET frames == (Len(samples) + channels - 1) \div channels
        RECURSIVE sum(_, _)
        sum(i, j) == IF i > j THEN 0 ELSE samples[i] + sum(i + 1, j)
    IN [f \in 1..frames |->
           <<sum((f - 1) * channels + 1, Min(f * channels, Len(samples))),
             channels>>]

\* resample_to_16k sending every input through the resampler
resample_to_16k_AlwaysFilters(samples, source_rate, channels) ==
    LET mono_samples == IF channels > 1 THEN stereo_to_mono(samples, channels)
                        ELSE samples
    IN [ok |-> TRUE, path |-> "resampler", samples |-> mono_samples]

\* resample.rs 20-61.  `path` tells the samples returned as they are from
\* the output of the resampler run over them.
resample_to_16k(samples, source_rate, channels) ==
    LET mono_samples == IF channels > 1 THEN stereo_to_mono(samples, channels)
                        ELSE samples
    IN IF source_rate = WHISPER_SAMPLE_RATE
       THEN [ok |-> TRUE, path |-> "as-is", samples |-> mono_samples]
       ELSE [ok |-> TRUE, path |-> "resampler", samples |-> mono_samples]

NoAudioCall == [op |-> "none", in |-> <<>>, out |-> <<>>]

AudioOff ==
    /\ vad_args = [enabled |-> FALSE, threshold |-> 0]
    /\ au_n = MaxAudioCalls /\ au_last = NoAudioCall

\* processor_noop.rs 20-27: VadProcessor::new(_enabled, _threshold) and
\* disabled(); the threshold in tenths
AudioInit ==
    /\ vad_args \in [enabled : BOOLEAN, threshold : {0, 5, 10}]
    /\ au_n = 0 /\ au_last = NoAudioCall

\* a process that passes nothing on when the processor was built enabled
VadProcessGated ==
    /\ au_n < MaxAudioCalls
    /\ au_n' = au_n + 1
    /\ \E samples \in SampleBuffers :
       au_last' = [op |-> "process", in |-> samples,
                   out |-> IF vad_args.enabled THEN <<>> ELSE samples]
    /\ UNCHANGED vad_args
    /\ UNCHANGED NotAudio

\* processor_noop.rs 35-37: samples.to_vec()
VadProcess ==
    /\ au_n < MaxAudioCalls
    /\ au_n' = au_n + 1
    /\ \E samples \in SampleBuffers :
       au_last' = [op |-> "process", in |-> samples,
                   out |-> [i \in 1..Len(samples) |-> samples[i]]]
    /\ UNCHANGED vad_args
    /\ UNCHANGED NotAudio

\* processor_noop.rs 30-32, 40-47: is_enabled, reset, flush
VadOther ==
    /\ au_n < MaxAudioCalls
    /\ au_n' = au_n + 1
    /\ \/ au_last' = [op |-> "is_enabled", in |-> <<>>, out |-> FALSE]
       \/ au_last' = [op |-> "reset", in |-> <<>>, out |-> <<>>]
       \/ au_last' = [op |-> "flush", in |-> <<>>, out |-> <<>>]
    /\ UNCHANGED vad_args
    /\ UNCHANGED NotAudio

\* a call of resample_to_16k; creating or running the resampler can fail
Resample ==
    /\ au_n < MaxAudioCalls
    /\ au_n' = au_n + 1
    /\ \E samples \in SampleBuffers, source_rate \in {16000, 48000},
          channels \in 0..2 :
       LET r == resample_to_16k(samples, source_rate, channels)
           failed == [ok |-> FALSE, path |-> "resampler", samples |-> <<>>]
       IN \E returned \in IF r.path = "resampler" THEN {r, failed} ELSE {r} :
             au_last' = [op |-> "resample",
                         in |-> [samples |-> samples, source_rate |-> source_rate,
                                 channels |-> channels],
                         out |-> returned]
    /\ UNCHANGED vad_args
    /\ UNCHANGED NotAudio

NextAudio ==
    \/ VadProcess
    \/ VadOther
    \/ Resample

(***************************************************************************)
(* Mobile streaming sessions that overlap: whis-mobile/src/commands.rs     *)
(* 464-586.  Every session shares AppState.recording_state and            *)
(* AppState.audio_tx; each has its own channel and its own spawned task.   *)
(***************************************************************************)
Sessions == 1..MaxSessions

SessionsOff ==
    /\ ss_state = "Idle" /\ ss_tx = 0
    /\ ss_cmd = [s \in Sessions |-> "off"]
    /\ ss_task = [s \in Sessions |-> "none"]
    /\ ss_sent = [s \in Sessions |-> 0]
    /\ ss_stopped = FALSE

\* lib.rs:14-17: recording_state starts Idle, audio_tx None
SessionsInit ==
    /\ ss_state = "Idle" /\ ss_tx = 0
    /\ ss_cmd = [s \in Sessions |-> "ready"]
    /\ ss_task = [s \in Sessions |-> "none"]
    /\ ss_sent = [s \in Sessions |-> 0]
    /\ ss_stopped = FALSE

\* the channel of session s is closed once its only sender, the one stored
\* in audio_tx at commands.rs:492-495, is no longer held there
SessionChannelClosed(s) == ss_cmd[s] = "started" /\ ss_tx # s

\* commands.rs:464-487: the store and the key with `?`, then Transcribing
SessionStartEnter(s) ==
    /\ ss_cmd[s] = "ready"
    /\ s > 1 => ss_cmd[s - 1] \in {"started", "failed"}
    /\ \E configOk \in BOOLEAN :
        IF configOk
        THEN /\ ss_state' = "Transcribing"
             /\ ss_cmd' = [ss_cmd EXCEPT ![s] = "entered"]
        ELSE /\ ss_cmd' = [ss_cmd EXCEPT ![s] = "failed"]
             /\ UNCHANGED ss_state
    /\ UNCHANGED <<ss_tx, ss_task, ss_sent, ss_stopped>>
    /\ UNCHANGED NotSessions

\* commands.rs:489-507: the new sender replaces whatever audio_tx held and
\* the task is spawned
SessionStartStore(s) ==
    /\ ss_cmd[s] = "entered"
    /\ ss_tx' = s
    /\ ss_task' = [ss_task EXCEPT ![s] = "transcribing"]
    /\ ss_cmd' = [ss_cmd EXCEPT ![s] = "started"]
    /\ ss_stopped' = FALSE
    /\ UNCHANGED <<ss_state, ss_sent>>
    /\ UNCHANGED NotSessions

\* commands.rs:554-571: transcribe_streaming_send_chunk sends on the sender
\* audio_tx holds
SessionSendChunk ==
    /\ ss_tx # 0
    /\ ss_sent[ss_tx] < MaxChunks
    /\ ss_sent' = [ss_sent EXCEPT ![ss_tx] = @ + 1]
    /\ UNCHANGED <<ss_state, ss_tx, ss_cmd, ss_task, ss_stopped>>
    /\ UNCHANGED NotSessions

\* commands.rs:578-586: transcribe_streaming_stop
SessionStop ==
    /\ \E s \in Sessions : ss_cmd[s] = "started"
    /\ ~ss_stopped
    /\ ss_tx' = 0
    /\ ss_stopped' = TRUE
    /\ UNCHANGED <<ss_state, ss_cmd, ss_task, ss_sent>>
    /\ UNCHANGED NotSessions

\* commands.rs:508-532: transcribe_stream returns Ok only once the channel
\* of its session is closed, and can fail at any time; on Ok the text is
\* post-processed and comes to the clipboard
SessionTaskTranscribed(s) ==
    /\ ss_task[s] = "transcribing"
    /\ \E ok \in BOOLEAN :
        IF ok
        THEN /\ SessionChannelClosed(s)
             /\ ss_task' = [ss_task EXCEPT ![s] = "clipboard"]
        ELSE ss_task' = [ss_task EXCEPT ![s] = "reset_state"]
    /\ UNCHANGED <<ss_state, ss_tx, ss_cmd, ss_sent, ss_stopped>>
    /\ UNCHANGED NotSessions

\* commands.rs:520-527: a clipboard failure returns from the task
SessionTaskClipboard(s) ==
    /\ ss_task[s] = "clipboard"
    /\ \E clipOk \in BOOLEAN :
        ss_task' = [ss_task EXCEPT
                        ![s] = IF clipOk THEN "reset_state" ELSE "ended"]
    /\ UNCHANGED <<ss_state, ss_tx, ss_cmd, ss_sent, ss_stopped>>
    /\ UNCHANGED NotSessions

\* commands.rs:534-538
SessionTaskResetState(s) ==
    /\ ss_task[s] = "reset_state"
    /\ ss_state' = "Idle"
    /\ ss_task' = [ss_task EXCEPT ![s] = "clear_tx"]
    /\ UNCHANGED <<ss_tx, ss_cmd, ss_sent, ss_stopped>>
    /\ UNCHANGED NotSessions

\* commands.rs:540-544
SessionTaskClearTx(s) ==
    /\ ss_task[s] = "clear_tx"
    /\ ss_tx' = 0
    /\ ss_task' = [ss_task EXCEPT ![s] = "ended"]
    /\ UNCHANGED <<ss_state, ss_cmd, ss_sent, ss_stopped>>
    /\ UNCHANGED NotSessions

NextSessions ==
    \/ \E s \in Sessions : SessionStartEnter(s)
    \/ \E s \in Sessions : SessionStartStore(s)
    \/ SessionSendChunk
    \/ SessionStop
    \/ \E s \in Sessions : SessionTaskTranscribed(s)
    \/ \E s \in Sessions : SessionTaskClipboard(s)
    \/ \E s \in Sessions : SessionTaskResetState(s)
    \/ \E s \in Sessions : SessionTaskClearTx(s)

(***************************************************************************)
(* The tasks of a chunked desktop recording and how they end:              *)
(* control.rs 67-87 (capture channel, adapter), 145-204 (chunker,          *)
(* transcription task), transcribe.rs 131-232, pipeline.rs 19-68.          *)
(***************************************************************************)
CascadeOff ==
    /\ cs_recorder = "off" /\ cs_captured = 0 /\ cs_capture = 0
    /\ cs_adapter = "ended" /\ cs_audio = 0
    /\ cs_chunker = "ended" /\ cs_pending = 0 /\ cs_chunks = 0
    /\ cs_task = "returned" /\ cs_result = "none" /\ cs_pipeline = "off"

\* control.rs 67-213: start_recording_sync has returned; the stream is open
\* and the adapter, the chunker and the transcription task are spawned
CascadeInit ==
    /\ cs_recorder = "recording" /\ cs_captured = 0 /\ cs_capture = 0
    /\ cs_adapter = "running" /\ cs_audio = 0
    /\ cs_chunker = "running" /\ cs_pending = 0 /\ cs_chunks = 0
    /\ cs_task = "spawned" /\ cs_result = "none" /\ cs_pipeline = "recording"

\* audio/recorder/stream.rs 66-87: the capture callback offers a frame with
\* try_send; a full channel drops it
CascadeCapture ==
    /\ cs_recorder = "recording"
    /\ cs_captured < MaxFrames
    /\ cs_captured' = cs_captured + 1
    /\ cs_capture' = IF cs_capture < StreamChannelCapacity
                     THEN cs_capture + 1 ELSE cs_capture
    /\ UNCHANGED <<cs_recorder, cs_adapter, cs_audio, cs_chunker, cs_pending,
                   cs_chunks, cs_task, cs_result, cs_pipeline>>
    /\ UNCHANGED NotCascade

\* the adapter never sees the end of the capture channel
CascadeAdapterNeverEnds ==
    /\ cs_adapter = "running"
    /\ cs_capture > 0
    /\ cs_capture' = cs_capture - 1
    /\ IF cs_chunker = "ended"
       THEN cs_adapter' = "ended" /\ UNCHANGED cs_audio
       ELSE cs_audio' = cs_audio + 1 /\ UNCHANGED cs_adapter
    /\ UNCHANGED <<cs_recorder, cs_captured, cs_chunker, cs_pending,
                   cs_chunks, cs_task, cs_result, cs_pipeline>>
    /\ UNCHANGED NotCascade

\* control.rs 79-87: one turn of the adapter.  recv yields a frame, or None
\* once the stream is gone and the channel is empty; a send to a dropped
\* receiver breaks the loop
CascadeAdapter ==
    /\ cs_adapter = "running"
    /\ IF cs_capture > 0
       THEN /\ cs_capture' = cs_capture - 1
            /\ IF cs_chunker = "ended"
               THEN cs_adapter' = "ended" /\ UNCHANGED cs_audio
               ELSE cs_audio' = cs_audio + 1 /\ UNCHANGED cs_adapter
       ELSE /\ cs_recorder = "stopped"
            /\ cs_adapter' = "ended"
            /\ UNCHANGED <<cs_capture, cs_audio>>
    /\ UNCHANGED <<cs_recorder, cs_captured, cs_chunker, cs_pending,
                   cs_chunks, cs_task, cs_result, cs_pipeline>>
    /\ UNCHANGED NotCascade

\* control.rs 160-164: one turn of consume_stream.  A frame is added to the
\* chunk being built, which may then be emitted; at the end of the stream
\* the tail is flushed and chunk_tx dropped
CascadeChunker ==
    /\ cs_chunker = "running"
    /\ IF cs_audio > 0
       THEN /\ cs_audio' = cs_audio - 1
            /\ \E emit \in BOOLEAN :
                IF emit
                THEN cs_chunks' = cs_chunks + 1 /\ cs_pending' = 0
                ELSE cs_pending' = cs_pending + 1 /\ UNCHANGED cs_chunks
            /\ UNCHANGED cs_chunker
       ELSE /\ cs_adapter = "ended"
            /\ cs_chunks' = IF cs_pending > 0 THEN cs_chunks + 1 ELSE cs_chunks
            /\ cs_pending' = 0
            /\ cs_chunker' = "ended"
            /\ UNCHANGED cs_audio
    /\ UNCHANGED <<cs_recorder, cs_captured, cs_capture, cs_adapter, cs_task,
                   cs_result, cs_pipeline>>
    /\ UNCHANGED NotCascade

\* control.rs 167-201, transcribe.rs 138-139: the task starts; the cloud
\* function leaves with `?` when the client or the backend is not to be had
CascadeTaskBegin ==
    /\ cs_task = "spawned"
    /\ \E ready \in BOOLEAN :
        IF ready
        THEN cs_task' = "loop" /\ UNCHANGED cs_result
        ELSE cs_task' = "returned" /\ cs_result' = "err"
    /\ UNCHANGED <<cs_recorder, cs_captured, cs_capture, cs_adapter, cs_audio,
                   cs_chunker, cs_pending, cs_chunks, cs_pipeline>>
    /\ UNCHANGED NotCascade

\* transcribe.rs 145-147, 179 (cloud), 206-211, 231 (local): recv yields a
\* chunk, or None once the chunker is gone and the channel is empty
CascadeTaskRecv ==
    /\ cs_task = "loop"
    /\ IF cs_chunks > 0
       THEN /\ cs_chunks' = cs_chunks - 1
            /\ cs_task' = "calling"
            /\ UNCHANGED cs_result
       ELSE /\ cs_chunker = "ended"
            /\ cs_task' = "returned"
            /\ cs_result' = "ok"
            /\ UNCHANGED cs_chunks
    /\ UNCHANGED <<cs_recorder, cs_captured, cs_capture, cs_adapter, cs_audio,
                   cs_chunker, cs_pending, cs_pipeline>>
    /\ UNCHANGED NotCascade

\* transcribe.rs 150-172 (cloud), 213-226 (local): the call for one chunk
\* comes back; a failure leaves with `?`, a panic of the task drops
\* result_tx unsent
CascadeTaskCall ==
    /\ cs_task = "calling"
    /\ \E r \in {"ok", "err", "panic"} :
        /\ cs_task' = IF r = "ok" THEN "loop" ELSE "returned"
        /\ cs_result' = CASE r = "ok" -> cs_result
                           [] r = "err" -> "err"
                           [] OTHER -> "dropped"
    /\ UNCHANGED <<cs_recorder, cs_captured, cs_capture, cs_adapter, cs_audio,
                   cs_chunker, cs_pending, cs_chunks, cs_pipeline>>
    /\ UNCHANGED NotCascade

\* pipeline.rs 19-33: the recorder is taken and stopped, and dropped at the
\* end of the block; a failed stop returns
CascadeStop ==
    /\ cs_pipeline = "recording"
    /\ cs_recorder' = "stopped"
    /\ \E stopOk \in BOOLEAN :
        cs_pipeline' = IF stopOk THEN "awaiting" ELSE "stop_failed"
    /\ UNCHANGED <<cs_captured, cs_capture, cs_adapter, cs_audio, cs_chunker,
                   cs_pending, cs_chunks, cs_task, cs_result>>
    /\ UNCHANGED NotCascade

\* pipeline.rs 48-61: rx.await comes back once the result is sent or
\* its sender dropped
CascadeAwait ==
    /\ cs_pipeline = "awaiting"
    /\ cs_result # "none"
    /\ cs_pipeline' = "returned"
    /\ UNCHANGED <<cs_recorder, cs_captured, cs_capture, cs_adapter, cs_audio,
                   cs_chunker, cs_pending, cs_chunks, cs_task, cs_result>>
    /\ UNCHANGED NotCascade

NextCascade ==
    \/ CascadeCapture
    \/ CascadeAdapter
    \/ CascadeChunker
    \/ CascadeTaskBegin
    \/ CascadeTaskRecv
    \/ CascadeTaskCall
    \/ CascadeStop
    \/ CascadeAwait

\* the runtime keeps running every spawned task and the awaiting command,
\* and every call for a chunk comes back
CascadeFairness ==
    /\ WF_vars(CascadeAdapter) /\ WF_vars(CascadeChunker)
    /\ WF_vars(CascadeTaskBegin) /\ WF_vars(CascadeTaskRecv)
    /\ WF_vars(CascadeTaskCall) /\ WF_vars(CascadeAwait)

(***************************************************************************)
(* Windows of a long input: local_parakeet.rs 66-120.  A window is the     *)
(* half-open range start..end of sample indices.                           *)
(***************************************************************************)
CHUNK_SIZE == 1440000
OVERLAP == 16000

\* input lengths: every half second of audio up to the longest
ParakeetLens == {h * (WHISPER_SAMPLE_RATE \div 2) : h \in 1..MaxParakeetHalfSecs}

WindowsOff ==
    /\ wn_len = 0 /\ wn_pc = "off" /\ wn_start = 0 /\ wn_chunks = <<>>

\* local_parakeet.rs 66-87: the call has its engine and its parameters
WindowsInit ==
    /\ wn_len \in ParakeetLens
    /\ wn_pc = "begin" /\ wn_start = 0 /\ wn_chunks = <<>>

\* local_parakeet.rs 89-94: a short input is transcribed in one piece
WindowsBegin ==
    /\ wn_pc = "begin"
    /\ IF wn_len <= CHUNK_SIZE
       THEN /\ wn_chunks' = <<<<0, wn_len>>>>
            /\ wn_pc' = "direct"
       ELSE /\ wn_pc' = "loop"
            /\ UNCHANGED wn_chunks
    /\ UNCHANGED <<wn_len, wn_start>>
    /\ UNCHANGED NotWindows

\* local_parakeet.rs 95-99: one test of the loop condition and, when it
\* holds, one turn of the body
WindowsStep ==
    /\ wn_pc = "loop"
    /\ IF wn_start < wn_len
       THEN LET end == IF wn_start + CHUNK_SIZE < wn_len
                       THEN wn_start + CHUNK_SIZE ELSE wn_len
            IN /\ wn_chunks' = Append(wn_chunks, <<wn_start, end>>)
               /\ wn_start' = wn_start + (CHUNK_SIZE - OVERLAP)
               /\ UNCHANGED wn_pc
       ELSE /\ wn_pc' = "split"
            /\ UNCHANGED <<wn_start, wn_chunks>>
    /\ UNCHANGED wn_len
    /\ UNCHANGED NotWindows

NextWindows ==
    \/ WindowsBegin
    \/ WindowsStep

\* the desktop application constructed and left alone
DesktopOff == DesktopInit /\ settings = [local |-> FALSE, keep_model_loaded |-> TRUE]

InitWindows ==
    /\ DesktopOff /\ StreamOff /\ CliOff /\ MobileOff /\ EngineOff
    /\ BudgetOff /\ CaptureOff /\ ChunkedOff /\ MergeOff /\ AudioOff
    /\ SessionsOff /\ CascadeOff
    /\ WindowsInit

SpecWindows == InitWindows /\ [][NextWindows]_vars

InitCascade ==
    /\ DesktopOff /\ StreamOff /\ CliOff /\ MobileOff /\ EngineOff
    /\ BudgetOff /\ CaptureOff /\ ChunkedOff /\ MergeOff /\ AudioOff
    /\ SessionsOff /\ CascadeInit /\ WindowsOff

SpecCascade == InitCascade /\ [][NextCascade]_vars /\ CascadeFairness

InitSessions ==
    /\ DesktopOff /\ StreamOff /\ CliOff /\ MobileOff /\ EngineOff
    /\ BudgetOff /\ CaptureOff /\ ChunkedOff /\ MergeOff /\ AudioOff
    /\ SessionsInit /\ CascadeOff /\ WindowsOff

SpecSessions == InitSessions /\ [][NextSessions]_vars

InitAudio ==
    /\ DesktopOff /\ StreamOff /\ CliOff /\ MobileOff /\ EngineOff
    /\ BudgetOff /\ CaptureOff /\ ChunkedOff /\ MergeOff /\ SessionsOff
    /\ CascadeOff /\ WindowsOff
    /\ AudioInit

SpecAudio == InitAudio /\ [][NextAudio]_vars

InitMerge ==
    /\ DesktopOff /\ StreamOff /\ CliOff /\ MobileOff /\ EngineOff
    /\ BudgetOff /\ CaptureOff /\ ChunkedOff /\ AudioOff /\ SessionsOff
    /\ CascadeOff /\ WindowsOff
    /\ MergeInit

SpecMerge == InitMerge /\ [][NextMerge]_vars

InitChunked ==
    /\ ChunkedInit /\ DesktopOff /\ StreamOff /\ CliOff /\ MobileOff
    /\ EngineOff /\ BudgetOff /\ CaptureOff /\ MergeOff /\ AudioOff
    /\ SessionsOff /\ CascadeOff /\ WindowsOff

SpecChunked == InitChunked /\ [][NextChunked]_vars

InitCapture ==
    /\ CaptureInit /\ DesktopOff /\ StreamOff /\ CliOff /\ MobileOff
    /\ EngineOff /\ BudgetOff /\ ChunkedOff /\ MergeOff /\ AudioOff
    /\ SessionsOff /\ CascadeOff /\ WindowsOff

SpecCapture == InitCapture /\ [][NextCapture]_vars

InitBudget ==
    /\ BudgetInit /\ DesktopOff /\ StreamOff /\ CliOff /\ MobileOff
    /\ EngineOff /\ CaptureOff /\ ChunkedOff /\ MergeOff /\ AudioOff
    /\ SessionsOff /\ CascadeOff /\ WindowsOff

SpecBudget == InitBudget /\ [][NextBudget]_vars

InitEngine ==
    /\ EngineInit /\ DesktopOff /\ StreamOff /\ CliOff /\ MobileOff
    /\ BudgetOff /\ CaptureOff /\ ChunkedOff /\ MergeOff /\ AudioOff
    /\ SessionsOff /\ CascadeOff /\ WindowsOff

SpecEngine == InitEngine /\ [][NextEngine]_vars

InitMobile ==
    /\ MobileInit /\ DesktopOff /\ StreamOff /\ CliOff /\ EngineOff
    /\ BudgetOff /\ CaptureOff /\ ChunkedOff /\ MergeOff /\ AudioOff
    /\ SessionsOff /\ CascadeOff /\ WindowsOff

SpecMobile == InitMobile /\ [][NextMobile]_vars

InitCli ==
    /\ CliInit /\ DesktopOff /\ StreamOff /\ MobileOff /\ EngineOff
    /\ BudgetOff /\ CaptureOff /\ ChunkedOff /\ MergeOff /\ AudioOff
    /\ SessionsOff /\ CascadeOff /\ WindowsOff

SpecCli == InitCli /\ [][NextCli]_vars

InitStream ==
    /\ StreamInit /\ DesktopOff /\ CliOff /\ MobileOff /\ EngineOff
    /\ BudgetOff /\ CaptureOff /\ ChunkedOff /\ MergeOff /\ AudioOff
    /\ SessionsOff /\ CascadeOff /\ WindowsOff

SpecStream == InitStream /\ [][NextStream]_vars

SpecStreamDroppable ==
    InitStream /\ [][NextStreamDroppable]_vars /\ StreamFairness

InitDesktop ==
    /\ DesktopInit /\ StreamOff /\ CliOff /\ MobileOff /\ EngineOff
    /\ BudgetOff /\ CaptureOff /\ ChunkedOff /\ MergeOff /\ AudioOff
    /\ SessionsOff /\ CascadeOff /\ WindowsOff

SpecDesktop == InitDesktop /\ [][NextDesktop]_vars

(***************************************************************************)
(* Properties of the desktop orchestrator.                                 *)
(***************************************************************************)
Returned(p) == pc[p] = "done"

IsStop(p) == out[p].op = "stop"

IsStart(p) == out[p].op = "start"

\* p ran alone after exactly one completed start: every other toggle either
\* is that start or has not been invoked.
OnlyStopAfterOneStart(p) ==
    /\ IsStop(p)
    /\ \E q \in Procs \ {p} :
        /\ Returned(q) /\ out[q].result = "start_ok"
        /\ \A r \in Procs \ {p, q} : pc[r] = "ready"

\* C1: every exit path of stop_and_transcribe leaves the state Idle, and the
\* state leaves Recording only after the recorder's stop has been performed.
C1_EveryStopExitIsIdle ==
    \A p \in Procs :
        /\ (OnlyStopAfterOneStart(p) /\ Returned(p)) => state = "Idle"
        /\ (OnlyStopAfterOneStart(p) /\ state # "Recording") =>
               out[p].took \in stopped

\* C2: every change of the RecordingState is Idle->Recording,
\* Recording->Transcribing or Transcribing->Idle.
C2_OnlyLegalTransitions ==
    \/ trans.by = NoRec
    \/ <<trans.from, trans.to>> \in
          {<<"Idle", "Recording">>, <<"Recording", "Transcribing">>,
           <<"Transcribing", "Idle">>}

\* a stop invocation that found the recorder already taken, and stopped, by an
\* earlier stop invocation
SecondStop(p) ==
    /\ IsStop(p) /\ out[p].took = NoRec
    /\ \E q \in Procs \ {p} :
          IsStop(q) /\ out[q].took # NoRec /\ out[q].result # "stop_err"

\* C3: a second stop for the same recording is a no-op: it changes no state
\* and takes no result receiver.
C3_SecondStopIsNoOp ==
    \A p \in Procs :
        SecondStop(p) => (trans.by # p /\ held[p] = NoRec)

\* C4: start entered while Recording or Transcribing stores nothing, opens no
\* capture and spawns no task; stop entered while Idle never changes the state,
\* writes no clipboard and emits no completion event.
C4_ReentrantCallsAreNoOps ==
    \A p \in Procs :
        /\ (IsStart(p) /\ out[p].entry # "Idle") =>
              /\ recorder # p /\ transcription_rx # p
              /\ p \notin capturing /\ task[p] = "none"
              /\ trans.by # p
        /\ (IsStop(p) /\ out[p].entry = "Idle") =>
              /\ trans.by # p
              /\ out[p].clip = "none"
              /\ out[p].events = <<>>

TranscribeBranchError(p) ==
    out[p].result \in {"err_no_rx", "err_task_dropped", "err_transcription"}

HasEvent(p, name) ==
    \E i \in 1..Len(out[p].events) : out[p].events[i][1] = name

\* C7: on any error in the transcribe branch a transcription-error event is
\* emitted, nothing is copied, no transcription-complete is emitted and the
\* state returns to Idle.
C7_TranscribeErrorIsReported ==
    \A p \in Procs :
        TranscribeBranchError(p) =>
            /\ HasEvent(p, "transcription-error")
            /\ out[p].clip = "none"
            /\ ~HasEvent(p, "transcription-complete")
            /\ (OnlyStopAfterOneStart(p) /\ Returned(p)) => state = "Idle"

\* C8: a post-processing failure never fails the operation: the raw transcript
\* is copied and carried by transcription-complete, and a post-process-warning
\* is emitted.
C8_PostProcessFailureIsNonFatal ==
    \A p \in Procs :
        (out[p].ppfail # "none" /\ out[p].clipok
            /\ pc[p] \in {"stop_reset", "done"}) =>
            /\ out[p].result = "ok"
            /\ out[p].clip = Raw
            /\ \E i \in 1..Len(out[p].events) :
                  out[p].events[i] = <<"transcription-complete", Raw>>
            /\ HasEvent(p, "post-process-warning")

C15_IdleUnloadScheduledAfterLocalSuccess ==
    \A p \in Procs :
        (/\ OnlyStopAfterOneStart(p)
         /\ Returned(p) /\ out[p].result = "ok"
         /\ settings.local /\ ~settings.keep_model_loaded) =>
            idle_unload_handle

MarkerWritten == \E i \in 1..Len(wire) : wire[i] = CloseMarker

\* C5: for every audio duration, when the close marker has been written and
\* no terminal event arrives after it (the reader is still draining or has
\* returned from its drain deadline), transcribe_stream, once it has
\* returned, has returned Ok with the text collected so far.
C5_DrainTimeoutReturnsOk ==
    (/\ s_pc = "returned"
     /\ done_sig.st = "sent"
     /\ r_pc = "phase2" \/ r_from = "drain_timeout")
        => (/\ s_result.ok
            /\ s_result.text = IF kind = "deepgram" THEN trim(collected)
                               ELSE <<>>)

\* C6: the reader is never in phase 2, and has never returned a phase-2
\* result, unless the sender has written the close marker to the socket.
C6_Phase2OnlyAfterCloseMarker ==
    (r_pc = "phase2" \/ r_from \in {"phase2_msg", "drain_timeout"})
        => MarkerWritten

\* the segments of a sequence joined by single spaces
RECURSIVE JoinedBySpaces(_)
JoinedBySpaces(segs) ==
    IF Len(segs) <= 1 THEN segs
    ELSE <<Head(segs), Space>> \o JoinedBySpaces(Tail(segs))

\* C16: with either backend, a transcript returned by transcribe_stream is
\* the final segments the reader received, joined by single spaces in arrival
\* order: none is lost or overwritten, and interim results contribute nothing.
C16_TranscriptIsAllFinalsInOrder ==
    (s_pc = "returned" /\ s_result.ok /\ r_pc = "returned") =>
        s_result.text = JoinedBySpaces(finals)

\* C17: in a Deepgram session the step that receives a final result never ends
\* the collection (the reader stays in its phase and returns nothing), the
\* reader leaves phase 2 only from its drain deadline or from a message that
\* is not a final result, and every final segment received is in the
\* transcript it returns.
C17_DeepgramFinalNeverEndsCollection ==
    /\ [][(kind = "deepgram" /\ finals' # finals) =>
            (r_pc' = r_pc /\ r_result' = r_result)]_vars
    /\ [][(kind = "deepgram" /\ r_pc = "phase2" /\ r_pc' = "returned") =>
            (drain = 0 \/ (msgs' = msgs + 1 /\ finals' = finals))]_vars
    /\ []((kind = "deepgram" /\ r_pc = "returned" /\ r_result.ok) =>
            r_result.text = JoinedBySpaces(finals))

\* the Deepgram reader returned from its drain deadline with two final
\* segments, the second received after the first did not end the collection
C17_Witness ==
    /\ kind = "deepgram"
    /\ r_from = "drain_timeout"
    /\ r_result = OkResult(<<1, Space, 2>>)

\* the completed transcript the reader received last
LastFinal == <<finals[Len(finals)]>>

\* C18: in an OpenAI session a completed transcript received in phase 1 is
\* retained while the reader stays in phase 1; when the reader takes the
\* sender's done signal it returns Ok with that transcript, and it never
\* enters phase 2 (whose deadline answers the empty string) holding one.
C18_EarlyTranscriptIsReturned ==
    /\ []((kind = "openai" /\ r_pc = "phase1" /\ finals # <<>>) =>
            collected = LastFinal)
    /\ [][(/\ kind = "openai" /\ r_pc = "phase1" /\ finals # <<>>
           /\ r_pc' # "phase1" /\ msgs' = msgs) =>
            (r_pc' = "returned" /\ r_result' = OkResult(LastFinal))]_vars
    /\ []((kind = "openai" /\ r_pc = "phase2") => finals = <<>>)
    /\ []((kind = "openai" /\ r_from = "phase1_early") =>
            (r_result.ok /\ r_result.text # <<>>))

\* an OpenAI session whose transcript arrived in phase 1 and was returned by
\* the reader at the done signal and by transcribe_stream
C18_Witness ==
    /\ kind = "openai"
    /\ r_from = "phase1_early"
    /\ finals = <<1>>
    /\ s_pc = "returned"
    /\ s_result = OkResult(<<1>>)

\* the reader failed on a message it read in phase 1: a transport error, a
\* provider error event, or a message that does not parse
Phase1Error == r_from = "phase1_msg" /\ r_result.set /\ ~r_result.ok

\* C19: with either backend, when the reader has received a transport error
\* or a provider error event in phase 1, transcribe_stream, once it has
\* returned, has returned an error and not Ok with a transcript.
C19_Phase1ErrorPropagates ==
    (Phase1Error /\ s_pc = "returned") => (s_result.set /\ ~s_result.ok)

\* an OpenAI reader failed in phase 1 while frames were still to be sent, and
\* the sender left its audio loop with the error before the commit
C19_Witness ==
    /\ kind = "openai"
    /\ Phase1Error
    /\ err_sig = "sent"
    /\ audio # <<>>
    /\ ~MarkerWritten
    /\ s_pc = "returned"
    /\ ~s_result.ok

\* an input_audio_buffer.append frame has been written to the socket
AudioSent == \E i \in 1..Len(wire) : wire[i].t = "audio"

\* C20: in an OpenAI session no audio frame is on the wire unless
\* session.created or session.updated was received first; and when the wait
\* for it ended any other way (30 s elapsed, the socket closed or failed, an
\* error event) transcribe_stream has returned an error with no audio sent.
C20_NoAudioBeforeSessionAck ==
    kind = "openai" =>
        /\ AudioSent => setup \in SessionAcks
        /\ s_pc = "stream" => setup \in SessionAcks
        /\ setup \notin (SessionAcks \cup {"none"}) =>
              /\ s_pc = "returned"
              /\ s_result.set /\ ~s_result.ok
              /\ ~AudioSent

\* the acknowledgement did not arrive within 30 s: transcribe_stream returned
\* an error with frames still waiting and none sent
C20_Witness ==
    /\ kind = "openai"
    /\ setup = "timeout"
    /\ audio # <<>> /\ Head(audio) > 0
    /\ s_pc = "returned" /\ ~s_result.ok
    /\ ~AudioSent

\* a post-processing step of process() failed: the configuration could not
\* be resolved, or the post_process call failed
CliPostProcessingFailed ==
    /\ cli_pc = "returned"
    /\ cli_in.enabled \/ cli_in.preset # "none"
    /\ ~cli_cfg.ok \/ cli_text = Raw

\* C9: when resolving the post-processor configuration fails or the
\* post_process call fails, process() returns Ok carrying the original
\* transcript text.
C9_CliPostProcessFailureReturnsOriginal ==
    CliPostProcessingFailed => cli_result = CliOk(Raw)

\* a terminal outcome of the mobile shell: transcribe_audio has returned, or
\* the streaming transcription task has ended
MobileTerminal ==
    \/ mob_in.op = "transcribe_audio" /\ mob_pc = "returned"
    \/ mob_in.op = "transcribe_streaming" /\ mob_task = "ended"

\* C11: every terminal outcome of transcribe_audio and of the streaming
\* transcription task leaves recording_state Idle, and the streaming task
\* also leaves no audio sender stored.
C11_MobileTerminalOutcomeIsIdle ==
    MobileTerminal =>
        /\ recording_state = "Idle"
        /\ mob_in.op = "transcribe_streaming" => ~audio_tx

\* the number of events of one sort in the log of the cache
EventCount(sort) ==
    Cardinality({i \in 1..Len(eng_log) : eng_log[i][1] = sort})

EventCountOf(sort, path) ==
    Cardinality({i \in 1..Len(eng_log) : eng_log[i] = <<sort, path>>})

\* on a fresh cache, get_or_load_engine(p) returned Ok, then
\* get_or_load_engine(x) was called and returned Ok, and nothing else ran
TwoEnsures(p, x) ==
    /\ call[1].op = "get_or_load_engine" /\ call[1].path = p
    /\ call[1].pc = "done" /\ call[1].result = "ok"
    /\ call[2].op = "get_or_load_engine" /\ call[2].path = x
    /\ call[2].pc = "done" /\ call[2].result = "ok"
    /\ call[2].began_after = 1
    /\ \A c \in Calls : c > 2 => call[c].pc = "ready"

\* C12: ensure_loaded(P) followed by ensure_loaded(P) performs exactly one
\* load; ensure_loaded(P) followed by ensure_loaded(Q), Q # P, performs exactly
\* one unload of P and one load of Q and leaves the slot holding Q.
C12_EngineCacheLoadsOnce ==
    \A p \in ModelPaths, x \in ModelPaths :
        TwoEnsures(p, x) =>
            IF x = p
            THEN /\ EventCount("load") = 1
                 /\ EventCount("unload") = 0
                 /\ slot = p
            ELSE /\ EventCountOf("load", x) = 1
                 /\ EventCount("load") = 2
                 /\ EventCountOf("unload", p) = 1
                 /\ EventCount("unload") = 1
                 /\ slot = x

\* the cache was asked for P and then for another model Q
C12_Witness ==
    \E p \in ModelPaths, x \in ModelPaths : x # p /\ TwoEnsures(p, x)

\* C13: when transcribe returns with keep_loaded false the slot is empty,
\* whether it returned a result or an error; when it returns a result with
\* keep_loaded true the engine of its model is in the slot.
C13_EngineDispositionHonored ==
    \A c \in Calls :
        (call[c].op = "transcribe" /\ call[c].pc = "done") =>
            /\ ~call[c].keep_at_return => call[c].slot_at_return = NoPath
            /\ (call[c].keep_at_return /\ call[c].result = "ok")
                  => call[c].slot_at_return = call[c].path

\* C14: at most one engine of a kind is resident: while the engine for a new
\* model is loaded, none is held in the slot.
C14_AtMostOneEngineResident ==
    ~(slot # NoPath /\ loading # NoPath)

(***************************************************************************)
(* Properties of the phase-2 budget.                                       *)
(***************************************************************************)
\* clamp(audio_secs / 5, lo, hi) in milliseconds, audio_secs = total / 16000:
\* exact for the sample counts of DrainTotals, which are multiples of 80
ClampedFifthMs(total, loSecs, hiSecs) ==
    Clamp((total * 25) \div (SAMPLE_RATE \div 8), loSecs * 1000, hiSecs * 1000)

\* C21: for every total_samples value the phase-2 budget equals
\* clamp(audio_secs / 5, min, max), with (5 s, 60 s) for Deepgram and
\* (30 s, 120 s) for OpenAI; 30 s of Deepgram audio gives 6 s.
C21_DrainBudgetIsClampedFifth ==
    dr_budget # -1 =>
        dr_budget = IF dr_kind = "deepgram"
                    THEN ClampedFifthMs(dr_total, DeepgramDrainMinSecs,
                                        DeepgramDrainMaxSecs)
                    ELSE ClampedFifthMs(dr_total, OpenAIDrainMinSecs,
                                        OpenAIDrainMaxSecs)

(***************************************************************************)
(* Properties of the path from the capture channel to the socket.          *)
(***************************************************************************)
\* a sequence of frames without its empty frames
RECURSIVE NonEmptyFrames(_)
NonEmptyFrames(fs) ==
    IF fs = <<>> THEN <<>>
    ELSE IF Head(fs) = 0 THEN NonEmptyFrames(Tail(fs))
    ELSE <<Head(fs)>> \o NonEmptyFrames(Tail(fs))

\* the audio frames written to the socket, in order
RECURSIVE WireAudio(_)
WireAudio(w) ==
    IF w = <<>> THEN <<>>
    ELSE IF Head(w).t = "audio" THEN <<Head(w).n>> \o WireAudio(Tail(w))
    ELSE WireAudio(Tail(w))

IsPrefix(a, b) == Len(a) <= Len(b) /\ SubSeq(b, 1, Len(a)) = a

\* C22: the frames the adapter delivers are the accepted frames in order,
\* each once; the frames written to the socket are the delivered frames
\* (empty ones aside) in order, each once; and when the close marker is
\* written every accepted frame has been written before it.
C22_FramesReachSocketInOrder ==
    /\ IsPrefix(delivered, accepted)
    /\ IsPrefix(WireAudio(wire), NonEmptyFrames(delivered))
    /\ s_pc \in {"configure", "setup", "stream"} =>
            delivered \o captured = accepted
    /\ MarkerWritten =>
            /\ WireAudio(wire) = NonEmptyFrames(accepted)
            /\ \A i, j \in 1..Len(wire) :
                  (wire[i].t = "audio" /\ wire[j] = CloseMarker) => i < j

\* two different frames went through the adapter and the sender and are on
\* the wire in capture order, before the close marker
C22_Witness ==
    /\ accepted = <<30 * SAMPLE_RATE, 100 * SAMPLE_RATE>>
    /\ WireAudio(wire) = accepted
    /\ MarkerWritten

(***************************************************************************)
(* Properties of the capture callback.                                     *)
(***************************************************************************)
\* C23: the error counter is at least the number of frames the callback
\* dropped because the bounded channel was full.
C23_DropsAreCounted == STREAM_ERROR_COUNT >= cap_dropped

(***************************************************************************)
(* Properties of the chunked branch.                                       *)
(***************************************************************************)
\* C24: when a chunk fails after earlier chunks were transcribed, the task
\* returns Ok with the merged text of the chunks transcribed so far.
C24_LaterChunkFailureDegrades ==
    (ch_pc = "returned" /\ ch_texts # <<>>)
        => (ch_result.ok /\ ch_result.of = ch_texts)

\* the engine cache of a local provider kind
LocalEngineOf(k) ==
    IF k = "LocalWhisper" THEN "whisper_engine" ELSE "parakeet_engine"

\* C25: under a local provider kind every chunk is transcribed by that
\* kind's engine cache, never through the backend's transcribe_async.
C25_LocalKindsUseTheirEngine ==
    ch_provider \in {"LocalWhisper", "LocalParakeet"}
        => \A i \in 1..Len(ch_requests) :
              ch_requests[i].via = LocalEngineOf(ch_provider)

\* the events a finished pipeline emitted, as a set
EventsOf(o) == {o.events[i] : i \in 1..Len(o.events)}

\* C26: after an empty capture on the REST path (no chunk delivered, every
\* step succeeded) the task has returned the empty transcript without a
\* provider request, transcription-complete carries that empty transcript,
\* and the state is Idle.
C26_EmptyCaptureEmitsEmpty ==
    (/\ ch_path = "cloud" /\ ch_closed /\ ch_next = 0
     /\ ch_out.result = "ok")
        => /\ ch_result.ok /\ ch_result.of = <<>>
           /\ ch_requests = <<>>
           /\ <<"transcription-complete", Raw>> \in EventsOf(ch_out)
           /\ ch_state = "Idle"

(***************************************************************************)
(* Properties of the merger.                                               *)
(***************************************************************************)
\* the largest L in 1..min(MAX_OVERLAP_WORDS, |E|, |S|) for which the last L
\* words of E are the first L words of S whatever their case, or 0
LargestOverlap(E, S) ==
    LET K == Min(MAX_OVERLAP_WORDS, Min(Len(E), Len(S)))
        Ls == {l \in 1..K :
                 \A k \in 1..l : eq_ignore_ascii_case(E[Len(E) - l + k], S[k])}
    IN IF Ls = {} THEN 0 ELSE CHOOSE l \in Ls : \A m \in Ls : m <= l

\* the words merged from the first i transcriptions of the call
MergedWords(i) ==
    IF i = Len(mg_in) THEN split_whitespace(mg_out)
    ELSE split_whitespace(merge_transcriptions(SubSeq(mg_in, 1, i)))

FoxChunks == Transcriptions(<<Run(3, 6, FALSE), Run(5, 8, FALSE)>>, TRUE)

\* C27: merging a chunk that has a leading overlap adds the chunk's words
\* without its first L, L the largest overlap of at most MAX_OVERLAP_WORDS
\* words, matched whatever the case; nothing is removed when there is none.
\* 'the quick brown fox' then 'brown fox jumps over' gives
\* 'the quick brown fox jumps over'.
C27_LargestOverlapIsRemoved ==
    mg_done =>
        /\ \A i \in 2..Len(mg_in) :
              mg_in[i].has_leading_overlap =>
                 LET E == MergedWords(i - 1)
                     S == split_whitespace(mg_in[i].text)
                     L == LargestOverlap(E, S)
                 IN MergedWords(i) = E \o SubSeq(S, L + 1, Len(S))
        /\ mg_in = FoxChunks => mg_out = Run(3, 8, FALSE)

C27_Witness ==
    /\ mg_done
    /\ mg_in = FoxChunks
    /\ mg_out = Run(3, 8, FALSE)

\* C28: a chunk with a leading overlap whose words are all found, in
\* order, at the end of the text merged so far is skipped, however long it
\* is: the merged output stays as it was.
C28_ContainedChunkIsSkipped ==
    (mg_done /\ Len(mg_in) = 2 /\ mg_in[2].has_leading_overlap) =>
        LET E == split_whitespace(mg_in[1].text)
            S == split_whitespace(mg_in[2].text)
            contained ==
                /\ S # <<>>
                /\ Len(S) <= Len(E)
                /\ \A k \in 1..Len(S) :
                      eq_ignore_ascii_case(E[Len(E) - Len(S) + k], S[k])
        IN contained => mg_out = trim(mg_in[1].text)

\* C29: the merged string has no leading or trailing whitespace, and a
\* single chunk gives its text trimmed.
C29_OutputIsTrimmed ==
    mg_done =>
        /\ mg_out = trim(mg_out)
        /\ Len(mg_in) = 1 => mg_out = trim(mg_in[1].text)

\* C30: when no chunk has a leading overlap the merge is the texts joined
\* by single spaces, in index order, and trimmed.
C30_NoOverlapIsTrimmedJoin ==
    (mg_done /\ \A i \in 1..Len(mg_in) : ~mg_in[i].has_leading_overlap)
        => mg_out = trim(join([i \in 1..Len(mg_in) |-> mg_in[i].text]))

\* C31: merging the result of merge(a, b) with a third chunk c gives the
\* same string as merging a, b, c in one call.
C31_MergeIsAssociative ==
    (mg_done /\ Len(mg_in) = 2) =>
        \A t \in MergeTexts, o \in BOOLEAN :
            LET c == [index |-> 2, text |-> t, has_leading_overlap |-> o]
                ab == [index |-> 0, text |-> mg_out, has_leading_overlap |-> FALSE]
            IN merge_transcriptions(<<ab, [c EXCEPT !.index = 1]>>)
                 = merge_transcriptions(Append(mg_in, c))

(***************************************************************************)
(* Properties of the audio front end.                                      *)
(***************************************************************************)
\* C32: whatever the processor was built with, process returns the input
\* samples in order, flush returns nothing, is_enabled reports false.
C32_NoopVadPassesThrough ==
    /\ au_last.op = "process" => au_last.out = au_last.in
    /\ au_last.op = "flush" => au_last.out = <<>>
    /\ au_last.op = "is_enabled" => au_last.out = FALSE

C32_Witness ==
    /\ vad_args.enabled
    /\ au_last.op = "process"
    /\ au_last.in = <<1, -1>>
    /\ au_last.out = <<1, -1>>

\* C33: a mono input at 16 kHz comes back from resample_to_16k as it is,
\* not through the resampler.
C33_ResampleIdentityAt16k ==
    (/\ au_last.op = "resample"
     /\ au_last.in.source_rate = 16000
     /\ au_last.in.channels = 1)
        => au_last.out = [ok |-> TRUE, path |-> "as-is",
                          samples |-> au_last.in.samples]

C33_Witness ==
    /\ au_last.op = "resample"
    /\ au_last.in = [samples |-> <<1, -1>>, source_rate |-> 16000, channels |-> 1]
    /\ au_last.out = [ok |-> TRUE, path |-> "as-is", samples |-> <<1, -1>>]

(***************************************************************************)
(* Concurrent toggles on the desktop.                                      *)
(***************************************************************************)
\* C34: however toggle requests interleave, at most one recorder is
\* capturing, and a start never stores its recorder over one that is still
\* in the state.
C34_AtMostOneRecordingStarted ==
    /\ Cardinality(capturing) <= 1
    /\ \A p \in Procs :
          pc[p] \in {"start_store_rx", "start_store_rec"} => recorder = NoRec

(***************************************************************************)
(* The engine cache under concurrent calls.                                *)
(***************************************************************************)
\* C35: when a transcribe(P) has come back from get_or_load_engine and is
\* about to lock the cache for inference, the slot holds the engine loaded
\* from P: it will neither find the slot empty nor run another model.
C35_TranscribeFindsItsEngine ==
    \A c \in Calls :
        (call[c].op = "transcribe" /\ call[c].pc = "tr_lock")
            => slot = call[c].path

\* C36: with keep_loaded false, once a transcription and a background
\* preload have been made and every call has returned successfully, the
\* slot is empty.
C36_NothingResidentAfterRecording ==
    (/\ ~KEEP_LOADED
     /\ \A c \in Calls : call[c].pc = "done" /\ call[c].result = "ok"
     /\ \E c \in Calls : call[c].op = "transcribe"
     /\ \E c \in Calls : call[c].op = "preload")
        => slot = NoPath

\* C37: while a later streaming session is active (its start has stored its
\* sender, no later start and no stop has followed, and its task is still
\* transcribing) audio_tx holds its sender and the state is Transcribing,
\* whatever the tasks of earlier sessions do.
C37_EarlierTaskSparesLaterSession ==
    \A t \in Sessions :
        (/\ t > 1
         /\ ss_cmd[t] = "started" /\ ss_task[t] = "transcribing"
         /\ \A u \in Sessions : u > t => ss_cmd[u] # "started"
         /\ ~ss_stopped)
            => ss_tx = t /\ ss_state = "Transcribing"

\* C38: once stop_and_transcribe has stopped the recorder, the adapter, the
\* chunker and the transcription task all come to their end, the oneshot is
\* resolved or dropped, and stop_and_transcribe returns.
C38_StopCascadesToTheResult ==
    (cs_recorder = "stopped")
        ~> (/\ cs_adapter = "ended" /\ cs_chunker = "ended"
            /\ cs_task = "returned" /\ cs_result # "none"
            /\ cs_pipeline \in {"returned", "stop_failed"})

\* a stopped recording whose audio went through every task: frames were
\* captured, the last chunk was flushed at the end of the stream, and the
\* merged result reached stop_and_transcribe
C38_Witness ==
    /\ cs_recorder = "stopped" /\ cs_captured > 0
    /\ cs_adapter = "ended" /\ cs_chunker = "ended"
    /\ cs_task = "returned" /\ cs_result = "ok"
    /\ cs_pipeline = "returned"

\* transcribe_stream of a Deepgram session has left: by a return or by its
\* future being dropped
DeepgramLeft == kind = "deepgram" /\ s_pc \in {"returned", "dropped"}

\* C39: on every exit of a Deepgram transcribe_stream (a return, an audio or
\* CloseStream send failure, the future dropped) the keepalive's cancel
\* channel is signalled or dropped and the reader's wait is at most the
\* 60 s drain budget, and the keepalive task and the reader both end.
C39_DeepgramTasksEnd ==
    /\ [](DeepgramLeft =>
            /\ ka_cancel
            /\ done_sig.st # "pending"
            /\ drain <= DeepgramDrainMaxSecs * 1000)
    /\ (DeepgramLeft ~> (keepalive = "stopped" /\ r_pc = "returned"))

\* a Deepgram session dropped in the middle of the audio, whose keepalive
\* has ended and whose reader ran out its drain budget
C39_Witness ==
    /\ kind = "deepgram" /\ s_pc = "dropped" /\ wire # <<>>
    /\ keepalive = "stopped"
    /\ r_pc = "returned" /\ r_from = "drain_timeout"

\* C40: when the loop over an input longer than CHUNK_SIZE has ended, no
\* window is longer than CHUNK_SIZE, the windows cover every sample, and
\* every window after the first has a sample beyond the end of the window
\* before it.
C40_WindowsCoverAndAdvance ==
    (wn_pc = "split" /\ wn_len > CHUNK_SIZE) =>
        /\ \A i \in 1..Len(wn_chunks) :
                wn_chunks[i][2] - wn_chunks[i][1] <= CHUNK_SIZE
        /\ wn_chunks # <<>>
        /\ wn_chunks[1][1] = 0
        /\ wn_chunks[Len(wn_chunks)][2] = wn_len
        /\ \A i \in 2..Len(wn_chunks) :
                /\ wn_chunks[i][1] <= wn_chunks[i - 1][2]
                /\ wn_chunks[i][2] > wn_chunks[i - 1][2]

====
